---- MODULE Spec2Model ----
(***************************************************************************)
(* Model of src/main_aux.py (ChenLiu-1996/MedicalImageProgression): the    *)
(* two-stage training controller train() with its epoch loop, stage        *)
(* selection, optimizer life cycles, gradient accumulation, validation,    *)
(* model selection and early stopping; the entry point and the set-up of   *)
(* train(); test(); and the backbone classes StaticODEUNet                 *)
(* (src/nn/unet_ode_static.py) and T_UNet (src/nn/unet_t_emb.py).          *)
(*                                                                         *)
(* Spec starts where train() reaches its epoch loop, over all combinations *)
(* of the options the loop depends on, on data and names that are valid.   *)
(* SpecRun starts at the entry point, over unsupported names, data that    *)
(* breaks the data contract and both modes, the options of the loop held   *)
(* small. SpecFair is Spec with the fairness of a sequential program.      *)
(* SpecNet starts from a constructed network object and calls forward and  *)
(* freeze_time_independent on it.                                          *)
(*                                                                         *)
(* Tensors are abstracted: network parameters are version counters (the    *)
(* number of optimizer steps applied to them), accumulated gradients are   *)
(* sets of <<sample index, loss term>> contributions, losses are small     *)
(* integers and their averages rationals.                                  *)
(***************************************************************************)
EXTENDS Integers, Sequences, FiniteSets, TLC

(* ------------------------------ bounds -------------------------------- *)
MaxEpochs == 2          \* config.max_epochs ranges over 1..MaxEpochs
MaxTrain == 5           \* len(train_set) ranges over MinBatchPerEpoch..MaxTrain
MaxVal == 1             \* len(val_set) ranges over 1..MaxVal
MaxBackpropFreq == 2    \* config.batch_size ranges over 1..MaxBackpropFreq
MaxPlotFreq == 2        \* config.plot_freq ranges over 1..MaxPlotFreq
MaxPatience == 1        \* config.patience ranges over 0..MaxPatience
MaxCap == 1             \* config.max_training_samples, when present, in 1..MaxCap
MaxLoss == 1            \* per-sample validation loss ranges over 0..MaxLoss
MaxTest == 2            \* len(test_set) ranges over 0..MaxTest
MaxRunEpochs == 3       \* config.max_epochs of a whole run, 1..MaxRunEpochs
MaxRunVal == 2          \* len(val_set) of a whole run, 1..MaxRunVal
MaxInputBlocks == 2     \* input blocks of a StaticODEUNet, 1..MaxInputBlocks
MaxWidth == 2           \* channel count after a block, 1..MaxWidth
MaxDepth == 1           \* depth of a T_UNet, 1..MaxDepth
MaxTime == 1            \* time input of forward, -MaxTime..MaxTime

(* ------------------------- program constants -------------------------- *)
MinBatchPerEpoch == 5   \* prepare_dataset: min_batch_per_epoch

NoCap == 0 - 1          \* 'max_training_samples' not in config

(* ------------------------------ state --------------------------------- *)
VARIABLES
    config,             \* the run's configuration and data set sizes
    pc,                 \* position of train() in its code
    epoch_idx,          \* loop variable of the epoch loop
    iter_idx,           \* loop variable of the sample loops (train and val)
    running_stage1,     \* line 104
    shall_plot,         \* lines 122 and 289
    optimizer,          \* backbone optimizer: [lr, created]
    lr_scheduler,       \* backbone scheduler: [of, steps], NoScheduler before epoch 0
    lr_scheduler_aux,   \* auxiliary scheduler: [of, steps]
    model_params,       \* number of optimizer steps applied to the backbone
    model_grad,         \* accumulated gradient of the backbone
    model_frozen,       \* "none" | "non_ode": which backbone parameters are frozen
    model_mode,         \* "train" | "eval": mode of the backbone
    aux_params,         \* number of optimizer steps applied to the auxiliary net
    aux_grad,           \* accumulated gradient of the auxiliary network
    aux_frozen,         \* TRUE after model_aux.freeze()
    loss_pred,          \* formula of the last prediction loss: "mse" | "cos" | "none"
    loss_aux,           \* sample index for which loss_aux was last assigned, or -1
    val_sum,            \* running sum val_loss of the validation pass
    val_loss,           \* averaged validation loss of the epoch, a rational
    best_val_loss,      \* line 73
    early_stopper,      \* [best, num_bad_epochs]
    ckpt_model,         \* epoch whose backbone weights are on disk, -1 if none
    ckpt_aux,           \* epoch whose auxiliary weights are on disk, -1 if none
    sample_trace,       \* protocol steps executed so far in the current sample
    opt_steps,          \* history: backbone optimizer step() calls
    aux_steps,          \* history: auxiliary optimizer step() calls
    recreated,          \* history: epochs at which line 96 ran
    saves,              \* history: save_weights calls, [epoch, net]
    es_calls,           \* history: early_stopper.step calls, [epoch, val, ret]
    val_history,        \* history: averaged validation losses of the epochs
                        \* with index >= epochs_stage1, in epoch order
    aux_snapshot,       \* aux_params at the end of the last STAGE_1 epoch
    aux_mode,           \* "train" | "eval": mode of the auxiliary network
    error,              \* name of the exception that ended the run, or "none"
    delta_t,            \* t_end - t_start of the sample being processed
    model_class,        \* class of the backbone object, "none" before it is built
    dirs_created,       \* os.makedirs of lines 77-78 (train) or 404 (test) has run
    test_sum,           \* running sum test_loss of test()
    printed,            \* number of messages printed by line 168
    samples_seen,       \* history: training samples fetched so far in the run
    sched_calls,        \* history: steps applied through lr_scheduler.step()
    val_loss_recon,     \* running sum val_loss_recon of the validation pass
    val_loss_pred,      \* running sum val_loss_pred of the validation pass
    net,                \* the network object of the network specification, NoNet elsewhere
    fwd,                \* the last forward call on net: its inputs and what it has done so far
    num_train_samples,  \* line 258: divisor of the training averages of the epoch
    assigned,           \* names of the per-sample and per-epoch variables assigned so far in the current sample or epoch summary
    stale_reads,        \* history: names read without having been assigned in the current sample
    logs                \* history: lines written through log()

vars == <<config, pc, epoch_idx, iter_idx, running_stage1, shall_plot,
          optimizer, lr_scheduler, lr_scheduler_aux, model_params, model_grad,
          model_frozen, model_mode, aux_params, aux_grad, aux_frozen,
          loss_pred, loss_aux, val_sum, val_loss, best_val_loss,
          early_stopper, ckpt_model, ckpt_aux, sample_trace, opt_steps,
          aux_steps, recreated, saves, es_calls, val_history, aux_snapshot,
          logs, aux_mode, error, delta_t, model_class, dirs_created, test_sum,
          printed, samples_seen, sched_calls, val_loss_recon, val_loss_pred,
          net, fwd, num_train_samples, assigned, stale_reads>>

(* ------------------------- values and helpers ------------------------- *)
\* np.inf, as a rational with denominator 0
Inf == [num |-> 1, den |-> 0]

Rat(n, d) == [num |-> n, den |-> d]

\* float comparison a < b on rationals and +infinity
Less(a, b) ==
    /\ a.den # 0
    /\ (b.den = 0 \/ a.num * b.den < b.num * a.den)

NoScheduler == [of |-> [lr |-> "none", created |-> 0 - 1], steps |-> 0]

Configs ==
    [max_epochs : 1..MaxEpochs,
     epochs_stage1 : 0..MaxEpochs,
     batch_size : 1..MaxBackpropFreq,
     plot_freq : 1..MaxPlotFreq,
     patience : 0..MaxPatience,
     max_training_samples : {NoCap} \cup (1..MaxCap),
     num_train : MinBatchPerEpoch..MaxTrain,
     num_val : 1..MaxVal,
     has_freeze_non_ode : BOOLEAN,
     mode : {"train"},
     model : {"ODEUNet"},
     dataset_name : {"retina_GA"},
     dt_positive : {TRUE},
     freeze_non_ode_raises : {FALSE},
     num_test : {1},
     test_fields : {5}]

\* the classes main_aux.py imports as backbones (lines 18-21)
SupportedModels == {"AutoEncoder", "T_AutoEncoder", "ODEAutoEncoder", "ODEUNet"}

\* values of config.model: backbone classes, two other names bound in the
\* module (the class AuxNet, the function train) and a name bound nowhere
ModelNames == {"ODEUNet", "AutoEncoder", "AuxNet", "train", "NoSuchModel"}

DatasetNames == {"retina_GA", "NoSuchDataset"}

\* whole runs of main_aux.py in train mode. Runs on faulty input: the
\* options the control flow of the epoch loop depends on are held at their
\* smallest values, the options and data properties the entry point and
\* the set-up depend on vary
FaultRunConfigs ==
    [max_epochs : 1..MaxEpochs,
     epochs_stage1 : 0..MaxEpochs,
     batch_size : {1},
     plot_freq : {1},
     patience : {0},
     max_training_samples : {NoCap},
     num_train : {MinBatchPerEpoch},
     num_val : 1..MaxVal,
     has_freeze_non_ode : BOOLEAN,
     mode : {"train"},
     model : ModelNames,
     dataset_name : DatasetNames,
     dt_positive : BOOLEAN,
     freeze_non_ode_raises : BOOLEAN,
     num_test : {1},
     test_fields : {5}]

\* runs on valid input with more epochs
LongRunConfigs ==
    [max_epochs : 1..MaxRunEpochs,
     epochs_stage1 : 0..MaxRunEpochs,
     batch_size : {1},
     plot_freq : {1},
     patience : {0},
     max_training_samples : {NoCap},
     num_train : {MinBatchPerEpoch},
     num_val : {1},
     has_freeze_non_ode : {TRUE},
     mode : {"train"},
     model : {"ODEUNet"},
     dataset_name : {"retina_GA"},
     dt_positive : {TRUE},
     freeze_non_ode_raises : {FALSE},
     num_test : {1},
     test_fields : {5}]

\* runs on valid input with validation sets that reach the sample plotted
\* (the second one) and training passes with samples not plotted
PlotRunConfigs ==
    [max_epochs : 1..MaxEpochs,
     epochs_stage1 : 0..MaxEpochs,
     batch_size : {1},
     plot_freq : 1..MaxPlotFreq,
     patience : {0},
     max_training_samples : {NoCap},
     num_train : {MinBatchPerEpoch},
     num_val : 1..MaxRunVal,
     has_freeze_non_ode : {TRUE},
     mode : {"train"},
     model : {"ODEUNet"},
     dataset_name : {"retina_GA"},
     dt_positive : {TRUE},
     freeze_non_ode_raises : {FALSE},
     num_test : {1},
     test_fields : {5}]

TrainRunConfigs == FaultRunConfigs \cup LongRunConfigs \cup PlotRunConfigs

TestRunConfigs ==
    [max_epochs : {1},
     epochs_stage1 : {0},
     batch_size : {1},
     plot_freq : {1},
     patience : {0},
     max_training_samples : {NoCap},
     num_train : {MinBatchPerEpoch},
     num_val : {1},
     has_freeze_non_ode : {FALSE},
     mode : {"test"},
     model : ModelNames,
     dataset_name : DatasetNames,
     dt_positive : BOOLEAN,
     freeze_non_ode_raises : {FALSE},
     num_test : 0..MaxTest,
     test_fields : {2, 5}]

RunConfigs == TrainRunConfigs \cup TestRunConfigs

\* t_end - t_start of a sample: positive in a data set that keeps the data
\* contract, anything otherwise
DeltaTs(positive) == IF positive THEN {1} ELSE {0 - 1, 0, 1}

\* forward(self, x, t) of the backbones; AuxNet.forward(self, x) takes no t
AcceptsTime(class) == class \in SupportedModels

\* prepare_dataset lines 10-15
KnownDataset(name) == name = "retina_GA"

\* globals()[name](num_filters=..., depth=..., use_residual=...,
\* in_channels=..., out_channels=...) returns an object: the backbone
\* classes do, and so does AuxNet, whose __init__ takes these keywords
Constructs(name) == name \in SupportedModels \cup {"AuxNet"}

\* line 479: side-by-side figures for the first 20 test samples
SideBySideLimit == 20

NoOptimizer == [lr |-> "none", created |-> 0 - 1]

\* no network object under study, no forward call made
NoNet == [class |-> "none"]

NoCall == [t |-> 0, returned |-> FALSE]

backprop_freq == config.batch_size

\* variant of RunningStage1: the boundary epoch counted as STAGE_1
RunningStage1Inclusive(e, es1) == e <= es1

\* line 104
RunningStage1(e, es1) == e < es1

\* variant of AtBoundary: the step taken at the first sample of a window
AtBoundaryAtZero(i, bf) == i % bf = 0

\* line 188: the condition under which optimizer steps and clears
AtBoundary(i, bf) == i % bf = bf - 1

\* variant of ComputesAuxLoss: the block guarded like the update of line 228
ComputesAuxLossStage1Only(stage1, plot) == stage1

\* line 196: the auxiliary loss block runs
ComputesAuxLoss(stage1, plot) == stage1 \/ plot

\* variant of UpdatesAux: the update guarded like the loss block of line 196
UpdatesAuxWhenPlotting(stage1, plot) == stage1 \/ plot

\* line 228: the auxiliary network is updated
UpdatesAux(stage1, plot) == stage1

\* variant of SelectsModel: model selection in every epoch
SelectsModelAlways(stage1) == TRUE

\* line 362: model selection and early stopping are considered
SelectsModel(stage1) == ~stage1

\* variant of Improves: val_loss <= best_val_loss
ImprovesOrEqual(value, best) == ~Less(best, value)

\* line 364
Improves(value, best) == Less(value, best)

\* torch.optim.AdamW(model.parameters(), lr=...)
AdamW(lr, e) == [lr |-> lr, created |-> e]

\* LinearWarmupCosineAnnealingLR(optimizer=...)
NewScheduler(opt) == [of |-> opt, steps |-> 0]

\* variant of SchedulerStep: one call advancing the schedule twice
SchedulerStepTwice(s) == [s EXCEPT !.steps = @ + 2]

\* lines 267-268: scheduler.step()
SchedulerStep(s) == [s EXCEPT !.steps = @ + 1]

(* ---------------------- early-stopping selector ----------------------- *)
\* EarlyStopping(mode='min', patience=..., percentage=False)
EarlyStopping == [best |-> Inf, num_bad_epochs |-> 0]

\* state of the selector after step(value)
EarlyStoppingStep(es, value) ==
    IF Less(value, es.best)
    THEN [best |-> value, num_bad_epochs |-> 0]
    ELSE [best |-> es.best, num_bad_epochs |-> es.num_bad_epochs + 1]

\* return value of step(value), es being the state after the update
EarlyStoppingSignal(es, patience) == es.num_bad_epochs >= patience

(* ------------------------------- Init --------------------------------- *)
\* lines 36-78: state of train() when it reaches the epoch loop
Init ==
    /\ config \in Configs
    /\ pc = "epoch_start"
    /\ epoch_idx = 0
    /\ iter_idx = 0
    /\ running_stage1 = FALSE
    /\ shall_plot = FALSE
    /\ optimizer = AdamW("learning_rate", 0 - 1)
    /\ lr_scheduler = NoScheduler
    /\ lr_scheduler_aux = NoScheduler
    /\ model_params = 0
    /\ model_grad = {}
    /\ model_frozen = "none"
    /\ model_mode = "train"
    /\ aux_params = 0
    /\ aux_grad = {}
    /\ aux_frozen = FALSE
    /\ loss_pred = "none"
    /\ loss_aux = 0 - 1
    /\ val_sum = 0
    /\ val_loss = Inf
    /\ best_val_loss = Inf
    /\ early_stopper = EarlyStopping
    /\ ckpt_model = 0 - 1
    /\ ckpt_aux = 0 - 1
    /\ sample_trace = <<>>
    /\ opt_steps = <<>>
    /\ aux_steps = <<>>
    /\ recreated = <<>>
    /\ saves = <<>>
    /\ es_calls = <<>>
    /\ val_history = <<>>
    /\ aux_snapshot = 0
    /\ logs = <<>>
    /\ aux_mode = "train"
    /\ error = "none"
    /\ delta_t = 1
    /\ model_class = config.model
    /\ dirs_created = TRUE
    /\ test_sum = 0
    /\ printed = 0
    /\ samples_seen = 0
    /\ sched_calls = 0
    /\ val_loss_recon = 0
    /\ val_loss_pred = 0
    /\ net = NoNet
    /\ fwd = NoCall
    /\ num_train_samples = 0
    /\ assigned = {}
    /\ stale_reads = {}

\* the similarities plot_side_by_side is given, lines 252 and 351
PlotReads == {"sim_x0", "sim_xT", "sim_pos", "sim_neg1", "sim_neg2"}

\* lines 203-219: what the auxiliary loss block assigns
AuxBlockAssigns ==
    {"sim_x0", "sim_xT", "sim_pos", "sim_neg1", "sim_neg2", "loss_aux"}

\* lines 170-178: what the prediction loss of a training sample assigns
PredLossAssigns(stage1) ==
    IF stage1 THEN {"loss_pred"} ELSE {"sim_x0", "sim_xT", "loss_pred"}

\* lines 255-256: train_aux_auroc_neg, train_aux_auroc_syn
AurocNames == {"train_aux_auroc_neg", "train_aux_auroc_syn"}

\* lines 313-330: what a validation sample assigns before its plot
ValSampleAssigns(plot) ==
    {"sim_x0", "sim_xT", "loss_pred"}
        \cup (IF plot THEN {"sim_pos", "sim_neg1", "sim_neg2"} ELSE {})

(* --------------------------- epoch prologue ---------------------------- *)
\* variant of ZeroGradAtEpochStart: the accumulated gradient carried over
ZeroGradAtEpochStartMissing(grad) == grad

\* lines 112-113: optimizer.zero_grad(), optimizer_aux.zero_grad()
ZeroGradAtEpochStart(grad) == {}

\* lines 80-113: schedulers at epoch 0, backbone optimizer re-creation at
\* epoch epochs_stage1 (elif: not taken at epoch 0), stage flag, train mode,
\* both accumulated gradients cleared
EpochStart ==
    /\ pc = "epoch_start"
    /\ IF epoch_idx = 0
       THEN /\ lr_scheduler' = NewScheduler(optimizer)
            /\ lr_scheduler_aux' =
                   NewScheduler(AdamW("learning_rate_aux", 0 - 1))
            /\ UNCHANGED <<optimizer, recreated>>
       ELSE IF epoch_idx = config.epochs_stage1
       THEN /\ optimizer' = AdamW("learning_rate_finetune", epoch_idx)
            /\ lr_scheduler' = NewScheduler(optimizer')
            /\ recreated' = Append(recreated, epoch_idx)
            /\ UNCHANGED lr_scheduler_aux
       ELSE UNCHANGED <<optimizer, lr_scheduler, lr_scheduler_aux, recreated>>
    /\ running_stage1' = RunningStage1(epoch_idx, config.epochs_stage1)
    /\ model_mode' = "train"
    /\ model_grad' = ZeroGradAtEpochStart(model_grad)
    /\ aux_grad' = ZeroGradAtEpochStart(aux_grad)
    /\ iter_idx' = 0
    /\ pc' = "train_iter"
    /\ aux_mode' = "train"
    /\ assigned' = {}
    /\ UNCHANGED <<config, epoch_idx, shall_plot, model_params, model_frozen,
                   aux_params, aux_frozen, loss_pred, loss_aux, val_sum,
                   val_loss, best_val_loss, early_stopper, ckpt_model,
                   ckpt_aux, sample_trace, opt_steps, aux_steps, saves,
                   es_calls, val_history, aux_snapshot, logs, error, delta_t,
                   model_class, dirs_created, test_sum, printed, samples_seen,
                   sched_calls, val_loss_recon, val_loss_pred,
                   net, fwd, num_train_samples, stale_reads>>

(* -------------------------- training pass ------------------------------ *)
\* variant of AfterStep: the prediction forward passes moved after the
\* reconstruction backward pass and the partial freeze
AfterStepPredictionLate(step) ==
    CASE step = "freeze_aux" -> "recon_forward"
      [] step = "recon_forward" -> "recon_backward"
      [] step = "recon_backward" -> "freeze_non_ode"
      [] step = "freeze_non_ode" -> "pred_forward"
      [] step = "pred_forward" -> "pred_loss"
      [] step = "pred_loss" -> "pred_backward"
      [] step = "pred_backward" -> "optimizer_boundary"
      [] step = "optimizer_boundary" -> "aux_loss"
      [] step = "aux_loss" -> "aux_update"
      [] step = "aux_update" -> "train_metrics"

\* lines 140-252: the statement order of the body of the sample loop
AfterStep(step) ==
    CASE step = "freeze_aux" -> "recon_forward"
      [] step = "recon_forward" -> "pred_forward"
      [] step = "pred_forward" -> "recon_backward"
      [] step = "recon_backward" -> "freeze_non_ode"
      [] step = "freeze_non_ode" -> "pred_loss"
      [] step = "pred_loss" -> "pred_backward"
      [] step = "pred_backward" -> "optimizer_boundary"
      [] step = "optimizer_boundary" -> "aux_loss"
      [] step = "aux_loss" -> "aux_update"
      [] step = "aux_update" -> "train_metrics"

\* lines 115-122: next sample of train_set, the optional cap, shall_plot
TrainIter ==
    /\ pc = "train_iter"
    /\ IF iter_idx >= config.num_train
       THEN /\ pc' = "train_end"
            /\ UNCHANGED <<shall_plot, sample_trace, delta_t, samples_seen,
                           assigned>>
       ELSE IF config.max_training_samples # NoCap
               /\ iter_idx > config.max_training_samples
       THEN /\ pc' = "train_end"
            /\ UNCHANGED <<shall_plot, sample_trace, delta_t, samples_seen,
                           assigned>>
       ELSE /\ shall_plot' = (iter_idx % config.plot_freq = 0)
            /\ sample_trace' = <<>>
            /\ delta_t' \in DeltaTs(config.dt_positive)
            /\ samples_seen' = samples_seen + 1
            /\ assigned' = {}
            /\ pc' = "freeze_aux"
    /\ UNCHANGED <<config, epoch_idx, iter_idx, running_stage1, optimizer,
                   lr_scheduler, lr_scheduler_aux, model_params, model_grad,
                   model_frozen, model_mode, aux_params, aux_grad, aux_frozen,
                   loss_pred, loss_aux, val_sum, val_loss, best_val_loss,
                   early_stopper, ckpt_model, ckpt_aux, opt_steps, aux_steps,
                   recreated, saves, es_calls, val_history, aux_snapshot,
                   logs, aux_mode, error, model_class, dirs_created, test_sum,
                   printed, sched_calls, val_loss_recon, val_loss_pred,
                   net, fwd, num_train_samples, stale_reads>>

\* variant of ModelUnfreeze: the call changes no requires_grad flag
ModelUnfreezeNoOp(frozen) == frozen

\* lines 145 and 185: model.unfreeze(), after which no backbone parameter
\* is frozen
ModelUnfreeze(frozen) == "none"

\* lines 131-145: shape assertions, convert_variables, model_aux.freeze(),
\* model.unfreeze()
FreezeAux ==
    /\ pc = "freeze_aux"
    /\ aux_frozen' = TRUE
    /\ model_frozen' = ModelUnfreeze(model_frozen)
    /\ sample_trace' = Append(sample_trace, "freeze_aux")
    /\ pc' = AfterStep(pc)
    /\ UNCHANGED <<config, epoch_idx, iter_idx, running_stage1, shall_plot,
                   optimizer, lr_scheduler, lr_scheduler_aux, model_params,
                   model_grad, model_mode, aux_params, aux_grad, loss_pred,
                   loss_aux, val_sum, val_loss, best_val_loss, early_stopper,
                   ckpt_model, ckpt_aux, opt_steps, aux_steps, recreated,
                   saves, es_calls, val_history, aux_snapshot, logs, aux_mode,
                   error, delta_t, model_class, dirs_created, test_sum,
                   printed, samples_seen, sched_calls, val_loss_recon,
                   val_loss_pred,
                   net, fwd, num_train_samples, assigned, stale_reads>>

\* lines 146-147: x_start_recon, x_end_recon at t = 0; model(x=..., t=...)
\* is a TypeError on an object whose forward takes no t
ReconForward ==
    /\ pc = "recon_forward"
    /\ IF AcceptsTime(model_class)
       THEN /\ sample_trace' = Append(sample_trace, "recon_forward")
            /\ pc' = AfterStep(pc)
            /\ UNCHANGED error
       ELSE /\ error' = "TypeError"
            /\ pc' = "failed"
            /\ UNCHANGED sample_trace
    /\ UNCHANGED <<config, epoch_idx, iter_idx, running_stage1, shall_plot,
                   optimizer, lr_scheduler, lr_scheduler_aux, model_params,
                   model_grad, model_frozen, model_mode, aux_params, aux_grad,
                   aux_frozen, loss_pred, loss_aux, val_sum, val_loss,
                   best_val_loss, early_stopper, ckpt_model, ckpt_aux,
                   opt_steps, aux_steps, recreated, saves, es_calls,
                   val_history, aux_snapshot, logs, aux_mode, delta_t,
                   model_class, dirs_created, test_sum, printed, samples_seen,
                   sched_calls, val_loss_recon, val_loss_pred,
                   net, fwd, num_train_samples, assigned, stale_reads>>

\* lines 149-154: the assertion on the time difference, then x_start_pred,
\* x_end_pred and their detached copies
PredForward ==
    /\ pc = "pred_forward"
    /\ IF delta_t > 0
       THEN /\ sample_trace' = Append(sample_trace, "pred_forward")
            /\ pc' = AfterStep(pc)
            /\ UNCHANGED error
       ELSE /\ error' = "AssertionError"
            /\ pc' = "failed"
            /\ UNCHANGED sample_trace
    /\ UNCHANGED <<config, epoch_idx, iter_idx, running_stage1, shall_plot,
                   optimizer, lr_scheduler, lr_scheduler_aux, model_params,
                   model_grad, model_frozen, model_mode, aux_params, aux_grad,
                   aux_frozen, loss_pred, loss_aux, val_sum, val_loss,
                   best_val_loss, early_stopper, ckpt_model, ckpt_aux,
                   opt_steps, aux_steps, recreated, saves, es_calls,
                   val_history, aux_snapshot, logs, aux_mode, delta_t,
                   model_class, dirs_created, test_sum, printed, samples_seen,
                   sched_calls, val_loss_recon, val_loss_pred,
                   net, fwd, num_train_samples, assigned, stale_reads>>

\* lines 156-161: loss_recon, scaled by 1/backprop_freq, backward
ReconBackward ==
    /\ pc = "recon_backward"
    /\ model_grad' = model_grad \cup {<<iter_idx, "recon">>}
    /\ sample_trace' = Append(sample_trace, "recon_backward")
    /\ pc' = AfterStep(pc)
    /\ UNCHANGED <<config, epoch_idx, iter_idx, running_stage1, shall_plot,
                   optimizer, lr_scheduler, lr_scheduler_aux, model_params,
                   model_frozen, model_mode, aux_params, aux_grad, aux_frozen,
                   loss_pred, loss_aux, val_sum, val_loss, best_val_loss,
                   early_stopper, ckpt_model, ckpt_aux, opt_steps, aux_steps,
                   recreated, saves, es_calls, val_history, aux_snapshot,
                   logs, aux_mode, error, delta_t, model_class, dirs_created,
                   test_sum, printed, samples_seen, sched_calls,
                   val_loss_recon, val_loss_pred,
                   net, fwd, num_train_samples, assigned, stale_reads>>

\* variant of FreezeNonOdeOutcome: a bare except around the call
FreezeNonOdeOutcomeBareExcept(has, raises) ==
    IF ~has \/ raises THEN "ignored" ELSE "frozen"

\* lines 165-168: what the try statement does: the AttributeError of a
\* missing method is caught and answered by print(), another exception
\* raised by the method propagates, otherwise the method has frozen
FreezeNonOdeOutcome(has, raises) ==
    IF ~has THEN "ignored" ELSE IF raises THEN "raised" ELSE "frozen"

\* lines 165-168: model.freeze_non_ode(); an AttributeError is answered by
\* print(), any other exception propagates
FreezeNonOde ==
    /\ pc = "freeze_non_ode"
    /\ LET outcome == FreezeNonOdeOutcome(config.has_freeze_non_ode,
                                          config.freeze_non_ode_raises)
       IN  /\ model_frozen' = IF outcome = "frozen" THEN "non_ode"
                              ELSE model_frozen
           /\ printed' = IF outcome = "ignored" THEN printed + 1 ELSE printed
           /\ error' = IF outcome = "raised" THEN "RuntimeError" ELSE error
           /\ sample_trace' =
                  IF outcome = "raised" THEN sample_trace
                  ELSE Append(sample_trace,
                              IF outcome = "frozen" THEN "freeze_non_ode"
                              ELSE "freeze_non_ode_ignored")
           /\ pc' = IF outcome = "raised" THEN "failed" ELSE AfterStep(pc)
    /\ UNCHANGED <<config, epoch_idx, iter_idx, running_stage1, shall_plot,
                   optimizer, lr_scheduler, lr_scheduler_aux, model_params,
                   model_grad, model_mode, aux_params, aux_grad, aux_frozen,
                   loss_pred, loss_aux, val_sum, val_loss, best_val_loss,
                   early_stopper, ckpt_model, ckpt_aux, opt_steps, aux_steps,
                   recreated, saves, es_calls, val_history, aux_snapshot,
                   logs, aux_mode, delta_t, model_class, dirs_created,
                   test_sum, samples_seen, sched_calls, val_loss_recon,
                   val_loss_pred,
                   net, fwd, num_train_samples, assigned, stale_reads>>

\* lines 170-179: formula of the prediction loss of a training sample:
\* "mse" is mse_loss(x_start, x_start_pred) + mse_loss(x_end, x_end_pred),
\* "cos" is (1 - sim_x0) + (1 - sim_xT) on auxiliary embeddings
PredLossFormula(stage1) == IF stage1 THEN "mse" ELSE "cos"

\* lines 170-179: prediction loss, pixel MSE in stage 1, cosine distance of
\* auxiliary embeddings otherwise
PredLoss ==
    /\ pc = "pred_loss"
    /\ loss_pred' = PredLossFormula(running_stage1)
    /\ sample_trace' = Append(sample_trace, "pred_loss")
    /\ pc' = AfterStep(pc)
    /\ assigned' = assigned \cup PredLossAssigns(running_stage1)
    /\ UNCHANGED <<config, epoch_idx, iter_idx, running_stage1, shall_plot,
                   optimizer, lr_scheduler, lr_scheduler_aux, model_params,
                   model_grad, model_frozen, model_mode, aux_params, aux_grad,
                   aux_frozen, loss_aux, val_sum, val_loss, best_val_loss,
                   early_stopper, ckpt_model, ckpt_aux, opt_steps, aux_steps,
                   recreated, saves, es_calls, val_history, aux_snapshot,
                   logs, aux_mode, error, delta_t, model_class, dirs_created,
                   test_sum, printed, samples_seen, sched_calls,
                   val_loss_recon, val_loss_pred,
                   net, fwd, num_train_samples, stale_reads>>

\* lines 182-185: loss_pred scaled by 1/backprop_freq, backward; the
\* auxiliary parameters do not require grad here; model.unfreeze()
PredBackward ==
    /\ pc = "pred_backward"
    /\ model_grad' = model_grad \cup {<<iter_idx, "pred">>}
    /\ aux_grad' = IF loss_pred = "cos" /\ ~aux_frozen
                   THEN aux_grad \cup {<<iter_idx, "pred">>}
                   ELSE aux_grad
    /\ model_frozen' = ModelUnfreeze(model_frozen)
    /\ sample_trace' = Append(sample_trace, "pred_backward")
    /\ pc' = AfterStep(pc)
    /\ UNCHANGED <<config, epoch_idx, iter_idx, running_stage1, shall_plot,
                   optimizer, lr_scheduler, lr_scheduler_aux, model_params,
                   model_mode, aux_params, aux_frozen, loss_pred, loss_aux,
                   val_sum, val_loss, best_val_loss, early_stopper,
                   ckpt_model, ckpt_aux, opt_steps, aux_steps, recreated,
                   saves, es_calls, val_history, aux_snapshot, logs, aux_mode,
                   error, delta_t, model_class, dirs_created, test_sum,
                   printed, samples_seen, sched_calls, val_loss_recon,
                   val_loss_pred,
                   net, fwd, num_train_samples, assigned, stale_reads>>

\* lines 188-190: optimizer.step(); optimizer.zero_grad() at the boundary
OptimizerBoundary ==
    /\ pc = "optimizer_boundary"
    /\ IF AtBoundary(iter_idx, backprop_freq)
       THEN /\ model_params' = model_params + 1
            /\ opt_steps' = Append(opt_steps,
                   [epoch |-> epoch_idx, iter |-> iter_idx,
                    lr |-> optimizer.lr, grad |-> model_grad,
                    seen |-> samples_seen])
            /\ model_grad' = {}
       ELSE UNCHANGED <<model_params, opt_steps, model_grad>>
    /\ sample_trace' = Append(sample_trace, "optimizer_boundary")
    /\ pc' = AfterStep(pc)
    /\ UNCHANGED <<config, epoch_idx, iter_idx, running_stage1, shall_plot,
                   optimizer, lr_scheduler, lr_scheduler_aux, model_frozen,
                   model_mode, aux_params, aux_grad, aux_frozen, loss_pred,
                   loss_aux, val_sum, val_loss, best_val_loss, early_stopper,
                   ckpt_model, ckpt_aux, aux_steps, recreated, saves,
                   es_calls, val_history, aux_snapshot, logs, aux_mode, error,
                   delta_t, model_class, dirs_created, test_sum, printed,
                   samples_seen, sched_calls, val_loss_recon, val_loss_pred,
                   net, fwd, num_train_samples, assigned, stale_reads>>

\* lines 193-225: model_aux.unfreeze() in stage 1; the auxiliary hinge loss
\* in stage 1 and at plot samples
AuxLoss ==
    /\ pc = "aux_loss"
    /\ aux_frozen' = IF running_stage1 THEN FALSE ELSE aux_frozen
    /\ IF ComputesAuxLoss(running_stage1, shall_plot)
       THEN /\ loss_aux' = iter_idx
            /\ sample_trace' = Append(sample_trace, "aux_loss")
       ELSE /\ UNCHANGED loss_aux
            /\ sample_trace' = Append(sample_trace, "aux_loss_skipped")
    /\ pc' = AfterStep(pc)
    /\ assigned' = IF ComputesAuxLoss(running_stage1, shall_plot)
                   THEN assigned \cup AuxBlockAssigns ELSE assigned
    /\ UNCHANGED <<config, epoch_idx, iter_idx, running_stage1, shall_plot,
                   optimizer, lr_scheduler, lr_scheduler_aux, model_params,
                   model_grad, model_frozen, model_mode, aux_params, aux_grad,
                   loss_pred, val_sum, val_loss, best_val_loss, early_stopper,
                   ckpt_model, ckpt_aux, opt_steps, aux_steps, recreated,
                   saves, es_calls, val_history, aux_snapshot, logs, aux_mode,
                   error, delta_t, model_class, dirs_created, test_sum,
                   printed, samples_seen, sched_calls, val_loss_recon,
                   val_loss_pred,
                   net, fwd, num_train_samples, stale_reads>>

\* variant of AuxBackwardOnBackbone: the auxiliary loss computed on
\* x_start_pred and x_end_pred themselves
AuxBackwardOnBackboneAttached(grad, i) == grad \cup {<<i, "aux">>}

\* lines 153-154, 197-198 and 231: what loss_aux_.backward() leaves in the
\* accumulated gradient of the backbone; the predictions enter the
\* auxiliary loss as x_start_pred_detach and x_end_pred_detach, the other
\* inputs are data
AuxBackwardOnBackbone(grad, i) == grad

\* variant of AuxAtBoundary: the auxiliary optimizer stepped at every sample
AuxAtBoundaryEverySample(i, bf) == TRUE

\* line 232: the condition under which optimizer_aux steps and clears
AuxAtBoundary(i, bf) == i % bf = bf - 1

\* lines 228-234: only in stage 1, loss_aux scaled by 1/backprop_freq,
\* backward, optimizer_aux.step(); optimizer_aux.zero_grad() at the boundary
AuxUpdate ==
    /\ pc = "aux_update"
    /\ IF UpdatesAux(running_stage1, shall_plot)
       THEN /\ model_grad' = AuxBackwardOnBackbone(model_grad, iter_idx)
            /\ IF AuxAtBoundary(iter_idx, backprop_freq)
               THEN /\ aux_params' = aux_params + 1
                    /\ aux_steps' = Append(aux_steps,
                           [epoch |-> epoch_idx, iter |-> iter_idx,
                            grad |-> aux_grad \cup {<<iter_idx, "aux">>}])
                    /\ aux_grad' = {}
               ELSE /\ aux_grad' = aux_grad \cup {<<iter_idx, "aux">>}
                    /\ UNCHANGED <<aux_params, aux_steps>>
       ELSE UNCHANGED <<aux_params, aux_steps, aux_grad, model_grad>>
    /\ sample_trace' = Append(sample_trace, "aux_update")
    /\ pc' = AfterStep(pc)
    /\ stale_reads' = IF UpdatesAux(running_stage1, shall_plot)
                      THEN stale_reads \cup ({"loss_aux"} \ assigned)
                      ELSE stale_reads
    /\ UNCHANGED <<config, epoch_idx, iter_idx, running_stage1, shall_plot,
                   optimizer, lr_scheduler, lr_scheduler_aux, model_params,
                   model_frozen, model_mode, aux_frozen,
                   loss_pred, loss_aux, val_sum, val_loss, best_val_loss,
                   early_stopper, ckpt_model, ckpt_aux, opt_steps, recreated,
                   saves, es_calls, val_history, aux_snapshot, logs, aux_mode,
                   error, delta_t, model_class, dirs_created, test_sum,
                   printed, samples_seen, sched_calls, val_loss_recon,
                   val_loss_pred,
                   net, fwd, num_train_samples, assigned>>

\* lines 236-252: PSNR/SSIM running sums; at a plot sample
\* plot_side_by_side reads the five similarities; then the next sample
TrainMetrics ==
    /\ pc = "train_metrics"
    /\ iter_idx' = iter_idx + 1
    /\ pc' = "train_iter"
    /\ stale_reads' = IF shall_plot
                      THEN stale_reads \cup (PlotReads \ assigned)
                      ELSE stale_reads
    /\ UNCHANGED <<config, epoch_idx, running_stage1, shall_plot, optimizer,
                   lr_scheduler, lr_scheduler_aux, model_params, model_grad,
                   model_frozen, model_mode, aux_params, aux_grad, aux_frozen,
                   loss_pred, loss_aux, val_sum, val_loss, best_val_loss,
                   early_stopper, ckpt_model, ckpt_aux, sample_trace,
                   opt_steps, aux_steps, recreated, saves, es_calls,
                   val_history, aux_snapshot, logs, aux_mode, error, delta_t,
                   model_class, dirs_created, test_sum, printed, samples_seen,
                   sched_calls, val_loss_recon, val_loss_pred,
                   net, fwd, num_train_samples, assigned>>

(* ------------------------ end of training pass ------------------------- *)
\* line 258: the number the running sums of the epoch are divided by
NumTrainSamples(cap, len_dataset) == IF cap # NoCap THEN cap ELSE len_dataset

\* lines 254-265: AUROC in stage 1; the running sums of the epoch divided
\* by num_train_samples
TrainEnd ==
    /\ pc = "train_end"
    /\ num_train_samples' = NumTrainSamples(config.max_training_samples,
                                            config.num_train)
    /\ pc' = "scheduler_step"
    /\ assigned' = IF running_stage1 THEN AurocNames ELSE {}
    /\ UNCHANGED <<config, epoch_idx, iter_idx, running_stage1, shall_plot,
                   optimizer, lr_scheduler, lr_scheduler_aux, model_params,
                   model_grad, model_frozen, model_mode, aux_params, aux_grad,
                   aux_frozen, loss_pred, loss_aux, val_sum, val_loss,
                   best_val_loss, early_stopper, ckpt_model, ckpt_aux,
                   sample_trace, opt_steps, aux_steps, recreated, saves,
                   es_calls, val_history, aux_snapshot, logs, aux_mode, error,
                   delta_t, model_class, dirs_created, test_sum, printed,
                   samples_seen, sched_calls, val_loss_recon, val_loss_pred,
                   net, fwd, stale_reads>>

\* lines 267-268: lr_scheduler.step(); lr_scheduler_aux.step()
SchedulersStep ==
    /\ pc = "scheduler_step"
    /\ lr_scheduler' = SchedulerStep(lr_scheduler)
    /\ lr_scheduler_aux' = SchedulerStep(lr_scheduler_aux)
    /\ sched_calls' = sched_calls + (lr_scheduler'.steps - lr_scheduler.steps)
    /\ pc' = "train_log"
    /\ UNCHANGED <<config, epoch_idx, iter_idx, running_stage1, shall_plot,
                   optimizer, model_params, model_grad, model_frozen,
                   model_mode, aux_params, aux_grad, aux_frozen, loss_pred,
                   loss_aux, val_sum, val_loss, best_val_loss, early_stopper,
                   ckpt_model, ckpt_aux, sample_trace, opt_steps, aux_steps,
                   recreated, saves, es_calls, val_history, aux_snapshot,
                   logs, aux_mode, error, delta_t, model_class, dirs_created,
                   test_sum, printed, samples_seen, val_loss_recon,
                   val_loss_pred,
                   net, fwd, num_train_samples, assigned, stale_reads>>

\* lines 270-281: the training log line of the epoch
TrainLog ==
    /\ pc = "train_log"
    /\ logs' = Append(logs,
           [epoch |-> epoch_idx,
            line |-> IF running_stage1 THEN "Train [Stage 1]"
                     ELSE "Train [Stage 2]"])
    /\ pc' = "val_start"
    /\ stale_reads' = IF running_stage1
                      THEN stale_reads \cup (AurocNames \ assigned)
                      ELSE stale_reads
    /\ UNCHANGED <<config, epoch_idx, iter_idx, running_stage1, shall_plot,
                   optimizer, lr_scheduler, lr_scheduler_aux, model_params,
                   model_grad, model_frozen, model_mode, aux_params, aux_grad,
                   aux_frozen, loss_pred, loss_aux, val_sum, val_loss,
                   best_val_loss, early_stopper, ckpt_model, ckpt_aux,
                   sample_trace, opt_steps, aux_steps, recreated, saves,
                   es_calls, val_history, aux_snapshot, aux_mode, error,
                   delta_t, model_class, dirs_created, test_sum, printed,
                   samples_seen, sched_calls, val_loss_recon, val_loss_pred,
                   net, fwd, num_train_samples, assigned>>

(* -------------------------- validation pass ---------------------------- *)
\* lines 283-287: running sums zeroed, both networks in eval mode, no_grad
ValStart ==
    /\ pc = "val_start"
    /\ val_sum' = 0
    /\ val_loss_recon' = 0
    /\ val_loss_pred' = 0
    /\ model_mode' = "eval"
    /\ aux_mode' = "eval"
    /\ iter_idx' = 0
    /\ pc' = "val_iter"
    /\ UNCHANGED <<config, epoch_idx, running_stage1, shall_plot, optimizer,
                   lr_scheduler, lr_scheduler_aux, model_params, model_grad,
                   model_frozen, aux_params, aux_grad, aux_frozen, loss_pred,
                   loss_aux, val_loss, best_val_loss, early_stopper,
                   ckpt_model, ckpt_aux, sample_trace, opt_steps, aux_steps,
                   recreated, saves, es_calls, val_history, aux_snapshot,
                   logs, error, delta_t, model_class, dirs_created, test_sum,
                   printed, samples_seen, sched_calls,
                   net, fwd, num_train_samples, assigned, stale_reads>>

\* variant of ValPredLossFormula: validation always scored by pixel MSE
ValPredLossFormulaPixel(stage1) == "mse"

\* lines 322-325: formula of the prediction loss of a validation sample
ValPredLossFormula(stage1) == IF stage1 THEN "mse" ELSE "cos"

\* variant of SampleLoss: the prediction term left out of the total
SampleLossReconOnly(recon, pred) == recon

\* line 327: loss = loss_recon + loss_pred
SampleLoss(recon, pred) == recon + pred

\* lines 288-351: one validation sample; its reconstruction and prediction
\* losses are inputs (their sum within 0..MaxLoss), the prediction term
\* following the stage's formula; the time difference of the sample is not
\* asserted on
ValSample ==
    /\ pc = "val_iter"
    /\ iter_idx < config.num_val
    /\ delta_t' \in DeltaTs(config.dt_positive)
    /\ \E recon \in 0..MaxLoss : \E pred \in 0..(MaxLoss - recon) :
           /\ val_sum' = val_sum + SampleLoss(recon, pred)
           /\ val_loss_recon' = val_loss_recon + recon
           /\ val_loss_pred' = val_loss_pred + pred
    /\ shall_plot' = (iter_idx = 1)
    /\ loss_pred' = ValPredLossFormula(running_stage1)
    /\ iter_idx' = iter_idx + 1
    /\ assigned' = ValSampleAssigns(shall_plot')
    /\ stale_reads' = IF shall_plot'
                      THEN stale_reads \cup (PlotReads \ assigned')
                      ELSE stale_reads
    /\ UNCHANGED <<config, pc, epoch_idx, running_stage1, optimizer,
                   lr_scheduler, lr_scheduler_aux, model_params, model_grad,
                   model_frozen, model_mode, aux_params, aux_grad, aux_frozen,
                   loss_aux, val_loss, best_val_loss, early_stopper,
                   ckpt_model, ckpt_aux, sample_trace, opt_steps, aux_steps,
                   recreated, saves, es_calls, val_history, aux_snapshot,
                   logs, aux_mode, error, model_class, dirs_created, test_sum,
                   printed, samples_seen, sched_calls,
                   net, fwd, num_train_samples>>

\* lines 353-360: average over len(val_set.dataset), validation log line
ValEnd ==
    /\ pc = "val_iter"
    /\ iter_idx >= config.num_val
    /\ val_loss' = Rat(val_sum, config.num_val)
    /\ val_history' = IF epoch_idx >= config.epochs_stage1
                      THEN Append(val_history, val_loss')
                      ELSE val_history
    /\ logs' = Append(logs, [epoch |-> epoch_idx, line |-> "Validation"])
    /\ pc' = "select"
    /\ UNCHANGED <<config, epoch_idx, iter_idx, running_stage1, shall_plot,
                   optimizer, lr_scheduler, lr_scheduler_aux, model_params,
                   model_grad, model_frozen, model_mode, aux_params, aux_grad,
                   aux_frozen, loss_pred, loss_aux, val_sum, best_val_loss,
                   early_stopper, ckpt_model, ckpt_aux, sample_trace,
                   opt_steps, aux_steps, recreated, saves, es_calls,
                   aux_snapshot, aux_mode, error, delta_t, model_class,
                   dirs_created, test_sum, printed, samples_seen, sched_calls,
                   val_loss_recon, val_loss_pred,
                   net, fwd, num_train_samples, assigned, stale_reads>>

(* ------------------ model selection and termination -------------------- *)
\* variant of AfterSelect: early_stopper.step nested in the improvement branch
AfterSelectSkipsStopper(improved) ==
    IF improved THEN "save_model" ELSE "epoch_end"

\* lines 364-371: the statement that follows the comparison of line 364
AfterSelect(improved) == IF improved THEN "save_model" ELSE "early_stop"

\* lines 362-365: nothing in stage 1; otherwise compare with best_val_loss.
\* The sums val_loss_recon and val_loss_pred, last read by the log line of
\* line 356, are dropped here
Select ==
    /\ pc = "select"
    /\ IF SelectsModel(running_stage1)
       THEN /\ best_val_loss' = IF Improves(val_loss, best_val_loss)
                                THEN val_loss ELSE best_val_loss
            /\ pc' = AfterSelect(Improves(val_loss, best_val_loss))
       ELSE /\ pc' = "epoch_end"
            /\ UNCHANGED best_val_loss
    /\ val_loss_recon' = 0
    /\ val_loss_pred' = 0
    /\ UNCHANGED <<config, epoch_idx, iter_idx, running_stage1, shall_plot,
                   optimizer, lr_scheduler, lr_scheduler_aux, model_params,
                   model_grad, model_frozen, model_mode, aux_params, aux_grad,
                   aux_frozen, loss_pred, loss_aux, val_sum, val_loss,
                   early_stopper, ckpt_model, ckpt_aux, sample_trace,
                   opt_steps, aux_steps, recreated, saves, es_calls,
                   val_history, aux_snapshot, logs, aux_mode, error, delta_t,
                   model_class, dirs_created, test_sum, printed, samples_seen,
                   sched_calls,
                   net, fwd, num_train_samples, assigned, stale_reads>>

\* line 366: model.save_weights(config.model_save_path)
SaveModel ==
    /\ pc = "save_model"
    /\ ckpt_model' = epoch_idx
    /\ saves' = Append(saves, [epoch |-> epoch_idx, net |-> "model"])
    /\ pc' = "save_aux"
    /\ UNCHANGED <<config, epoch_idx, iter_idx, running_stage1, shall_plot,
                   optimizer, lr_scheduler, lr_scheduler_aux, model_params,
                   model_grad, model_frozen, model_mode, aux_params, aux_grad,
                   aux_frozen, loss_pred, loss_aux, val_sum, val_loss,
                   best_val_loss, early_stopper, ckpt_aux, sample_trace,
                   opt_steps, aux_steps, recreated, es_calls, val_history,
                   aux_snapshot, logs, aux_mode, error, delta_t, model_class,
                   dirs_created, test_sum, printed, samples_seen, sched_calls,
                   val_loss_recon, val_loss_pred,
                   net, fwd, num_train_samples, assigned, stale_reads>>

\* lines 367-370: model_aux.save_weights(config.model_aux_save_path), log
SaveAux ==
    /\ pc = "save_aux"
    /\ ckpt_aux' = epoch_idx
    /\ saves' = Append(saves, [epoch |-> epoch_idx, net |-> "model_aux"])
    /\ logs' = Append(logs, [epoch |-> epoch_idx, line |-> "Saved"])
    /\ pc' = "early_stop"
    /\ UNCHANGED <<config, epoch_idx, iter_idx, running_stage1, shall_plot,
                   optimizer, lr_scheduler, lr_scheduler_aux, model_params,
                   model_grad, model_frozen, model_mode, aux_params, aux_grad,
                   aux_frozen, loss_pred, loss_aux, val_sum, val_loss,
                   best_val_loss, early_stopper, ckpt_model, sample_trace,
                   opt_steps, aux_steps, recreated, es_calls, val_history,
                   aux_snapshot, aux_mode, error, delta_t, model_class,
                   dirs_created, test_sum, printed, samples_seen, sched_calls,
                   val_loss_recon, val_loss_pred,
                   net, fwd, num_train_samples, assigned, stale_reads>>

\* variant of StopOrContinue: the break missing
StopOrContinueNoBreak(stop) == "epoch_end"

\* lines 371-375: the statement after `if early_stopper.step(val_loss)`:
\* break on a stop signal, the end of the loop body otherwise
StopOrContinue(stop) == IF stop THEN "done" ELSE "epoch_end"

\* lines 371-375: early_stopper.step(val_loss); break when it signals stop
EarlyStop ==
    /\ pc = "early_stop"
    /\ early_stopper' = EarlyStoppingStep(early_stopper, val_loss)
    /\ LET stop == EarlyStoppingSignal(early_stopper', config.patience)
       IN  /\ es_calls' = Append(es_calls,
                  [epoch |-> epoch_idx, val |-> val_loss, ret |-> stop])
           /\ logs' = IF stop
                      THEN Append(logs, [epoch |-> epoch_idx,
                                         line |-> "Early stopping"])
                      ELSE logs
           /\ pc' = StopOrContinue(stop)
    /\ UNCHANGED <<config, epoch_idx, iter_idx, running_stage1, shall_plot,
                   optimizer, lr_scheduler, lr_scheduler_aux, model_params,
                   model_grad, model_frozen, model_mode, aux_params, aux_grad,
                   aux_frozen, loss_pred, loss_aux, val_sum, val_loss,
                   best_val_loss, ckpt_model, ckpt_aux, sample_trace,
                   opt_steps, aux_steps, recreated, saves, val_history,
                   aux_snapshot, aux_mode, error, delta_t, model_class,
                   dirs_created, test_sum, printed, samples_seen, sched_calls,
                   val_loss_recon, val_loss_pred,
                   net, fwd, num_train_samples, assigned, stale_reads>>

\* lines 80 and 376: the epoch loop advances, train() returns after the
\* last epoch; aux_snapshot remembers the auxiliary parameters a STAGE_1
\* epoch ends with. val_sum and val_loss, which lines 283 and 353 assign
\* before they are read again, go back to their initial values
EpochEnd ==
    /\ pc = "epoch_end"
    /\ epoch_idx' = epoch_idx + 1
    /\ pc' = IF epoch_idx + 1 < config.max_epochs THEN "epoch_start"
             ELSE "done"
    /\ aux_snapshot' = IF running_stage1 THEN aux_params ELSE aux_snapshot
    /\ val_sum' = 0
    /\ val_loss' = Inf
    /\ UNCHANGED <<config, iter_idx, running_stage1, shall_plot, optimizer,
                   lr_scheduler, lr_scheduler_aux, model_params, model_grad,
                   model_frozen, model_mode, aux_params, aux_grad, aux_frozen,
                   loss_pred, loss_aux, best_val_loss, early_stopper,
                   ckpt_model, ckpt_aux, sample_trace, opt_steps, aux_steps,
                   recreated, saves, es_calls, val_history, logs, aux_mode,
                   error, delta_t, model_class, dirs_created, test_sum,
                   printed, samples_seen, sched_calls, val_loss_recon,
                   val_loss_pred,
                   net, fwd, num_train_samples, assigned, stale_reads>>

(* ------------------------- entry point, set-up ------------------------- *)
\* lines 647-655: the entry point dispatches on args.mode
Main ==
    /\ pc = "main"
    /\ pc' = IF config.mode = "train" THEN "prepare_dataset" ELSE "test_setup"
    /\ UNCHANGED <<config, epoch_idx, iter_idx, running_stage1, shall_plot,
                   optimizer, lr_scheduler, lr_scheduler_aux, model_params,
                   model_grad, model_frozen, model_mode, aux_params, aux_grad,
                   aux_frozen, loss_pred, loss_aux, val_sum, val_loss,
                   best_val_loss, early_stopper, ckpt_model, ckpt_aux,
                   sample_trace, opt_steps, aux_steps, recreated, saves,
                   es_calls, val_history, aux_snapshot, logs, aux_mode, error,
                   delta_t, model_class, dirs_created, test_sum, printed,
                   samples_seen, sched_calls, val_loss_recon, val_loss_pred,
                   net, fwd, num_train_samples, assigned, stale_reads>>

\* lines 40-41 and prepare_dataset lines 8-53: ValueError on a dataset name
\* other than 'retina_GA'
PrepareDataset ==
    /\ pc = "prepare_dataset"
    /\ IF KnownDataset(config.dataset_name)
       THEN /\ pc' = "build_model"
            /\ UNCHANGED error
       ELSE /\ error' = "ValueError"
            /\ pc' = "failed"
    /\ UNCHANGED <<config, epoch_idx, iter_idx, running_stage1, shall_plot,
                   optimizer, lr_scheduler, lr_scheduler_aux, model_params,
                   model_grad, model_frozen, model_mode, aux_params, aux_grad,
                   aux_frozen, loss_pred, loss_aux, val_sum, val_loss,
                   best_val_loss, early_stopper, ckpt_model, ckpt_aux,
                   sample_trace, opt_steps, aux_steps, recreated, saves,
                   es_calls, val_history, aux_snapshot, logs, aux_mode,
                   delta_t, model_class, dirs_created, test_sum, printed,
                   samples_seen, sched_calls, val_loss_recon, val_loss_pred,
                   net, fwd, num_train_samples, assigned, stale_reads>>

\* lines 44-51: globals()[config.model](...); whatever the lookup or the
\* call raises becomes a ValueError
BuildModel ==
    /\ pc = "build_model"
    /\ IF Constructs(config.model)
       THEN /\ model_class' = config.model
            /\ pc' = "create_optimizers"
            /\ UNCHANGED error
       ELSE /\ error' = "ValueError"
            /\ pc' = "failed"
            /\ UNCHANGED model_class
    /\ UNCHANGED <<config, epoch_idx, iter_idx, running_stage1, shall_plot,
                   optimizer, lr_scheduler, lr_scheduler_aux, model_params,
                   model_grad, model_frozen, model_mode, aux_params, aux_grad,
                   aux_frozen, loss_pred, loss_aux, val_sum, val_loss,
                   best_val_loss, early_stopper, ckpt_model, ckpt_aux,
                   sample_trace, opt_steps, aux_steps, recreated, saves,
                   es_calls, val_history, aux_snapshot, logs, aux_mode,
                   delta_t, dirs_created, test_sum, printed, samples_seen,
                   sched_calls, val_loss_recon, val_loss_pred,
                   net, fwd, num_train_samples, assigned, stale_reads>>

\* lines 53-74: the auxiliary network, init_params, both optimizers, the
\* early-stopping selector, best_val_loss
CreateOptimizers ==
    /\ pc = "create_optimizers"
    /\ optimizer' = AdamW("learning_rate", 0 - 1)
    /\ early_stopper' = EarlyStopping
    /\ best_val_loss' = Inf
    /\ pc' = "makedirs"
    /\ UNCHANGED <<config, epoch_idx, iter_idx, running_stage1, shall_plot,
                   lr_scheduler, lr_scheduler_aux, model_params, model_grad,
                   model_frozen, model_mode, aux_params, aux_grad, aux_frozen,
                   loss_pred, loss_aux, val_sum, val_loss, ckpt_model,
                   ckpt_aux, sample_trace, opt_steps, aux_steps, recreated,
                   saves, es_calls, val_history, aux_snapshot, logs, aux_mode,
                   error, delta_t, model_class, dirs_created, test_sum,
                   printed, samples_seen, sched_calls, val_loss_recon,
                   val_loss_pred,
                   net, fwd, num_train_samples, assigned, stale_reads>>

\* lines 76-78: the output directories of the figures
MakeDirs ==
    /\ pc = "makedirs"
    /\ dirs_created' = TRUE
    /\ pc' = "epoch_start"
    /\ UNCHANGED <<config, epoch_idx, iter_idx, running_stage1, shall_plot,
                   optimizer, lr_scheduler, lr_scheduler_aux, model_params,
                   model_grad, model_frozen, model_mode, aux_params, aux_grad,
                   aux_frozen, loss_pred, loss_aux, val_sum, val_loss,
                   best_val_loss, early_stopper, ckpt_model, ckpt_aux,
                   sample_trace, opt_steps, aux_steps, recreated, saves,
                   es_calls, val_history, aux_snapshot, logs, aux_mode, error,
                   delta_t, model_class, test_sum, printed, samples_seen,
                   sched_calls, val_loss_recon, val_loss_pred,
                   net, fwd, num_train_samples, assigned, stale_reads>>

(* ------------------------------- test() -------------------------------- *)
\* lines 384-409: prepare_dataset, the backbone, load_weights and its log
\* line, the output directory, the running sums
TestSetup ==
    /\ pc = "test_setup"
    /\ IF KnownDataset(config.dataset_name) /\ Constructs(config.model)
       THEN /\ model_class' = config.model
            /\ logs' = Append(logs, [epoch |-> 0 - 1,
                                     line |-> "Model weights loaded"])
            /\ dirs_created' = TRUE
            /\ test_sum' = 0
            /\ iter_idx' = 0
            /\ pc' = "test_iter"
            /\ UNCHANGED error
       ELSE /\ error' = "ValueError"
            /\ pc' = "failed"
            /\ UNCHANGED <<model_class, dirs_created, logs, test_sum,
                           iter_idx>>
    /\ UNCHANGED <<config, epoch_idx, running_stage1, shall_plot, optimizer,
                   lr_scheduler, lr_scheduler_aux, model_params, model_grad,
                   model_frozen, model_mode, aux_params, aux_grad, aux_frozen,
                   loss_pred, loss_aux, val_sum, val_loss, best_val_loss,
                   early_stopper, ckpt_model, ckpt_aux, sample_trace,
                   opt_steps, aux_steps, recreated, saves, es_calls,
                   val_history, aux_snapshot, aux_mode, delta_t, printed,
                   samples_seen, sched_calls, val_loss_recon, val_loss_pred,
                   net, fwd, num_train_samples, assigned, stale_reads>>

\* line 410: the next item of test_set, unpacked into (images, timestamps)
TestIter ==
    /\ pc = "test_iter"
    /\ IF iter_idx >= config.num_test
       THEN /\ pc' = "test_end"
            /\ UNCHANGED <<error, delta_t>>
       ELSE IF config.test_fields # 2
       THEN /\ error' = "ValueError"
            /\ pc' = "failed"
            /\ UNCHANGED delta_t
       ELSE /\ delta_t' \in DeltaTs(config.dt_positive)
            /\ pc' = "test_sample"
            /\ UNCHANGED error
    /\ UNCHANGED <<config, epoch_idx, iter_idx, running_stage1, shall_plot,
                   optimizer, lr_scheduler, lr_scheduler_aux, model_params,
                   model_grad, model_frozen, model_mode, aux_params, aux_grad,
                   aux_frozen, loss_pred, loss_aux, val_sum, val_loss,
                   best_val_loss, early_stopper, ckpt_model, ckpt_aux,
                   sample_trace, opt_steps, aux_steps, recreated, saves,
                   es_calls, val_history, aux_snapshot, logs, aux_mode,
                   model_class, dirs_created, test_sum, printed, samples_seen,
                   sched_calls, val_loss_recon, val_loss_pred,
                   net, fwd, num_train_samples, assigned, stale_reads>>

\* lines 411-482: forward passes, test_loss and the metric sums, the summary
\* figure, and for the first 20 samples plot_side_by_side called with 8 of
\* its 19 required arguments
TestSample ==
    /\ pc = "test_sample"
    /\ IF ~AcceptsTime(model_class)
       THEN /\ error' = "TypeError"
            /\ pc' = "failed"
            /\ UNCHANGED <<test_sum, iter_idx>>
       ELSE /\ \E loss \in 0..MaxLoss : test_sum' = test_sum + loss
            /\ IF iter_idx < SideBySideLimit
               THEN /\ error' = "TypeError"
                    /\ pc' = "failed"
                    /\ UNCHANGED iter_idx
               ELSE /\ iter_idx' = iter_idx + 1
                    /\ pc' = "test_iter"
                    /\ UNCHANGED error
    /\ UNCHANGED <<config, epoch_idx, running_stage1, shall_plot, optimizer,
                   lr_scheduler, lr_scheduler_aux, model_params, model_grad,
                   model_frozen, model_mode, aux_params, aux_grad, aux_frozen,
                   loss_pred, loss_aux, val_sum, val_loss, best_val_loss,
                   early_stopper, ckpt_model, ckpt_aux, sample_trace,
                   opt_steps, aux_steps, recreated, saves, es_calls,
                   val_history, aux_snapshot, logs, aux_mode, delta_t,
                   model_class, dirs_created, printed, samples_seen,
                   sched_calls, val_loss_recon, val_loss_pred,
                   net, fwd, num_train_samples, assigned, stale_reads>>

\* lines 484-495: the sums divided by len(test_set.dataset), the aggregated
\* log line
TestEnd ==
    /\ pc = "test_end"
    /\ IF config.num_test = 0
       THEN /\ error' = "ZeroDivisionError"
            /\ pc' = "failed"
            /\ UNCHANGED logs
       ELSE /\ logs' = Append(logs, [epoch |-> 0 - 1, line |-> "Test loss"])
            /\ pc' = "done"
            /\ UNCHANGED error
    /\ UNCHANGED <<config, epoch_idx, iter_idx, running_stage1, shall_plot,
                   optimizer, lr_scheduler, lr_scheduler_aux, model_params,
                   model_grad, model_frozen, model_mode, aux_params, aux_grad,
                   aux_frozen, loss_pred, loss_aux, val_sum, val_loss,
                   best_val_loss, early_stopper, ckpt_model, ckpt_aux,
                   sample_trace, opt_steps, aux_steps, recreated, saves,
                   es_calls, val_history, aux_snapshot, aux_mode, delta_t,
                   model_class, dirs_created, test_sum, printed, samples_seen,
                   sched_calls, val_loss_recon, val_loss_pred,
                   net, fwd, num_train_samples, assigned, stale_reads>>

(* --------------------------- specification ----------------------------- *)
Next ==
    \/ EpochStart
    \/ TrainIter
    \/ FreezeAux
    \/ ReconForward
    \/ PredForward
    \/ ReconBackward
    \/ FreezeNonOde
    \/ PredLoss
    \/ PredBackward
    \/ OptimizerBoundary
    \/ AuxLoss
    \/ AuxUpdate
    \/ TrainMetrics
    \/ TrainEnd
    \/ SchedulersStep
    \/ TrainLog
    \/ ValStart
    \/ ValSample
    \/ ValEnd
    \/ Select
    \/ SaveModel
    \/ SaveAux
    \/ EarlyStop
    \/ EpochEnd

Spec == Init /\ [][Next]_vars

\* train() is one sequential thread of control (the loops of lines 80, 115
\* and 287): whenever a statement is left to execute, it is executed
SpecFair == Spec /\ WF_vars(Next)

\* the variables of train() and test() before either has run
EntryState ==
    /\ epoch_idx = 0
    /\ iter_idx = 0
    /\ running_stage1 = FALSE
    /\ shall_plot = FALSE
    /\ optimizer = NoOptimizer
    /\ lr_scheduler = NoScheduler
    /\ lr_scheduler_aux = NoScheduler
    /\ model_params = 0
    /\ model_grad = {}
    /\ model_frozen = "none"
    /\ model_mode = "train"
    /\ aux_params = 0
    /\ aux_grad = {}
    /\ aux_frozen = FALSE
    /\ loss_pred = "none"
    /\ loss_aux = 0 - 1
    /\ val_sum = 0
    /\ val_loss = Inf
    /\ best_val_loss = Inf
    /\ early_stopper = EarlyStopping
    /\ ckpt_model = 0 - 1
    /\ ckpt_aux = 0 - 1
    /\ sample_trace = <<>>
    /\ opt_steps = <<>>
    /\ aux_steps = <<>>
    /\ recreated = <<>>
    /\ saves = <<>>
    /\ es_calls = <<>>
    /\ val_history = <<>>
    /\ aux_snapshot = 0
    /\ logs = <<>>
    /\ aux_mode = "train"
    /\ error = "none"
    /\ delta_t = 1
    /\ model_class = "none"
    /\ dirs_created = FALSE
    /\ test_sum = 0
    /\ printed = 0
    /\ samples_seen = 0
    /\ sched_calls = 0
    /\ val_loss_recon = 0
    /\ val_loss_pred = 0
    /\ num_train_samples = 0
    /\ assigned = {}
    /\ stale_reads = {}

\* state of the process at the entry point of main_aux.py
InitRun ==
    /\ config \in RunConfigs
    /\ pc = "main"
    /\ net = NoNet
    /\ fwd = NoCall
    /\ EntryState

\* a whole run: entry point, then train() or test()
NextRun ==
    \/ Main
    \/ PrepareDataset
    \/ BuildModel
    \/ CreateOptimizers
    \/ MakeDirs
    \/ Next
    \/ TestSetup
    \/ TestIter
    \/ TestSample
    \/ TestEnd

SpecRun == InitRun /\ [][NextRun]_vars

(* ------------------------- the network classes ------------------------- *)
\* StaticODEUNet (nn/unet_ode_static.py) and T_UNet (nn/unet_t_emb.py) as
\* objects on their own: a parameter is named by the attribute that holds
\* its module and its index there, the requires_grad flags are a function
\* of the parameters, channel counts are small integers

\* lines 65-66 and 68-69 of unet_ode_static.py: append a channel count
\* unless it is in the list already
AppendIfNew(list, dim) ==
    IF \E i \in DOMAIN list : list[i] = dim THEN list ELSE Append(list, dim)

RECURSIVE DimsOfInputBlocks(_, _)
\* lines 63-66: the channel counts after the first k input blocks
DimsOfInputBlocks(input_dims, k) ==
    IF k = 0 THEN <<>>
    ELSE AppendIfNew(DimsOfInputBlocks(input_dims, k - 1), input_dims[k])

\* lines 59-69: self.dim_list, the distinct channel counts after the input
\* blocks and the middle block, in order of appearance
DimList(input_dims, middle_dim) ==
    AppendIfNew(DimsOfInputBlocks(input_dims, Len(input_dims)), middle_dim)

\* the parameters of self.unet (lines 39-56) stand for those of the model
\* that create_model returns
UnetParameters == {<<"unet", 1>>, <<"unet", 2>>}

\* the parameters of StaticODEUNet: those of self.unet and, lines 72-74,
\* one ODEBlock per entry of dim_list
StaticODEUNetParameters(input_dims, middle_dim) ==
    UnetParameters
        \cup {<<"ode_list", i>> : i \in DOMAIN DimList(input_dims, middle_dim)}

\* the parameters of T_UNet, lines 58-77 of unet_t_emb.py
T_UNetParameters(depth) ==
    {<<"encoder", 1>>, <<"t_emb_bottleneck", 1>>, <<"out_layer", 1>>}
        \cup {<<m, d>> : m \in {"t_emb_list", "up_list", "up_conn_list"},
                         d \in 1..depth}

\* a StaticODEUNet whose parameters carry the flags given
StaticODEUNet(input_dims, middle_dim, flags) ==
    [class |-> "StaticODEUNet", input_dims |-> input_dims,
     middle_dim |-> middle_dim,
     dim_list |-> DimList(input_dims, middle_dim), depth |-> 0,
     requires_grad |-> flags, initial |-> flags, froze |-> FALSE]

\* a T_UNet whose parameters carry the flags given
T_UNet(depth, flags) ==
    [class |-> "T_UNet", input_dims |-> <<>>, middle_dim |-> 0,
     dim_list |-> <<>>, depth |-> depth,
     requires_grad |-> flags, initial |-> flags, froze |-> FALSE]

InputDims == UNION {[1..n -> 1..MaxWidth] : n \in 1..MaxInputBlocks}

Nets ==
    {StaticODEUNet(dims, mid, flags) :
        <<dims, mid, flags>> \in
            UNION {{<<d, m, f>> :
                       f \in [StaticODEUNetParameters(d, m) -> BOOLEAN]} :
                   <<d, m>> \in InputDims \X (1..MaxWidth)}}
    \cup {T_UNet(depth, flags) :
             <<depth, flags>> \in
                 UNION {{<<d, f>> : f \in [T_UNetParameters(d) -> BOOLEAN]} :
                        d \in 1..MaxDepth}}

\* self.parameters()
Parameters(n) == DOMAIN n.requires_grad

\* self.<module>.parameters()
ModuleParameters(n, module) == {p \in Parameters(n) : p[1] = module}

\* variant of TimeIndependentParameters: nothing subtracted
TimeIndependentParametersAll(n) == Parameters(n)

\* time_independent_parameters: line 83 of unet_ode_static.py, line 93 of
\* unet_t_emb.py
TimeIndependentParameters(n) ==
    IF n.class = "StaticODEUNet"
    THEN Parameters(n) \ ModuleParameters(n, "ode_list")
    ELSE (Parameters(n) \ ModuleParameters(n, "t_emb_list"))
             \ ModuleParameters(n, "t_emb_bottleneck")

\* variant of UseOde: the ODE skipped for backward time as well
UseOdeForward(t) == t > 0

\* line 102 of unet_ode_static.py: use_ode = t.item() != 0
UseOde(t) == t # 0

\* lines 118 and 129: np.argwhere(np.array(self.dim_list) == h.shape[1])
OdeMatches(dim_list, dim) == {i \in DOMAIN dim_list : dim_list[i] = dim}

Reverse(seq) == [i \in DOMAIN seq |-> seq[Len(seq) + 1 - i]]

\* the network specification starts from any network object, no call made;
\* train() and test() are not running
InitNet ==
    /\ config = CHOOSE c \in TestRunConfigs : TRUE
    /\ pc = "net_idle"
    /\ net \in Nets
    /\ fwd = NoCall
    /\ EntryState


\* lines 92-114 of unet_ode_static.py: forward(x, t) is entered
NetForwardCall ==
    /\ pc = "net_idle"
    /\ net.class = "StaticODEUNet"
    /\ \E t \in (0 - MaxTime)..MaxTime :
           fwd' = [t |-> t, returned |-> FALSE, use_ode |-> UseOde(t),
                   blocks_done |-> 0, h_skip_connection |-> <<>>,
                   decoder_skips |-> <<>>, ode_calls |-> <<>>,
                   h |-> "input"]
    /\ pc' = "net_input_blocks"
    /\ UNCHANGED <<config, epoch_idx, iter_idx, running_stage1, shall_plot,
                   optimizer, lr_scheduler, lr_scheduler_aux, model_params,
                   model_grad, model_frozen, model_mode, aux_params, aux_grad,
                   aux_frozen, loss_pred, loss_aux, val_sum, val_loss,
                   best_val_loss, early_stopper, ckpt_model, ckpt_aux,
                   sample_trace, opt_steps, aux_steps, recreated, saves,
                   es_calls, val_history, aux_snapshot, logs, aux_mode, error,
                   delta_t, model_class, dirs_created, test_sum, printed,
                   samples_seen, sched_calls, val_loss_recon, val_loss_pred,
                   net, num_train_samples, assigned, stale_reads>>

\* lines 115-125: one input block; with use_ode its output goes through
\* the ODE block of its channel count, integrated over [0, t], before it
\* is kept as a skip connection (.item() fails unless one entry matches)
NetInputBlock ==
    /\ pc = "net_input_blocks"
    /\ fwd.blocks_done < Len(net.input_dims)
    /\ LET k == fwd.blocks_done + 1
           matches == OdeMatches(net.dim_list, net.input_dims[k])
           ode_idx == CHOOSE i \in matches : TRUE
       IN  IF ~fwd.use_ode
           THEN /\ fwd' = [fwd EXCEPT !.blocks_done = k,
                               !.h = "features",
                               !.h_skip_connection = Append(@, "features")]
                /\ UNCHANGED <<pc, error>>
           ELSE IF Cardinality(matches) = 1
           THEN /\ fwd' = [fwd EXCEPT !.blocks_done = k,
                               !.h = "features",
                               !.ode_calls = Append(@,
                                   [ode_idx |-> ode_idx,
                                    on |-> <<"input_blocks", k>>,
                                    integration_time |-> <<0, fwd.t>>]),
                               !.h_skip_connection = Append(@, "integrated")]
                /\ UNCHANGED <<pc, error>>
           ELSE /\ error' = "ValueError"
                /\ pc' = "failed"
                /\ UNCHANGED fwd
    /\ UNCHANGED <<config, epoch_idx, iter_idx, running_stage1, shall_plot,
                   optimizer, lr_scheduler, lr_scheduler_aux, model_params,
                   model_grad, model_frozen, model_mode, aux_params, aux_grad,
                   aux_frozen, loss_pred, loss_aux, val_sum, val_loss,
                   best_val_loss, early_stopper, ckpt_model, ckpt_aux,
                   sample_trace, opt_steps, aux_steps, recreated, saves,
                   es_calls, val_history, aux_snapshot, logs, aux_mode,
                   delta_t, model_class, dirs_created, test_sum, printed,
                   samples_seen, sched_calls, val_loss_recon, val_loss_pred,
                   net, num_train_samples, assigned, stale_reads>>

\* lines 127-133: the middle block; with use_ode its output goes through
\* the ODE block of its channel count
NetMiddleBlock ==
    /\ pc = "net_input_blocks"
    /\ fwd.blocks_done = Len(net.input_dims)
    /\ LET matches == OdeMatches(net.dim_list, net.middle_dim)
           ode_idx == CHOOSE i \in matches : TRUE
       IN  IF ~fwd.use_ode
           THEN /\ fwd' = [fwd EXCEPT !.h = "features"]
                /\ pc' = "net_output_blocks"
                /\ UNCHANGED error
           ELSE IF Cardinality(matches) = 1
           THEN /\ fwd' = [fwd EXCEPT !.h = "integrated",
                               !.ode_calls = Append(@,
                                   [ode_idx |-> ode_idx,
                                    on |-> <<"middle_block", 1>>,
                                    integration_time |-> <<0, fwd.t>>])]
                /\ pc' = "net_output_blocks"
                /\ UNCHANGED error
           ELSE /\ error' = "ValueError"
                /\ pc' = "failed"
                /\ UNCHANGED fwd
    /\ UNCHANGED <<config, epoch_idx, iter_idx, running_stage1, shall_plot,
                   optimizer, lr_scheduler, lr_scheduler_aux, model_params,
                   model_grad, model_frozen, model_mode, aux_params, aux_grad,
                   aux_frozen, loss_pred, loss_aux, val_sum, val_loss,
                   best_val_loss, early_stopper, ckpt_model, ckpt_aux,
                   sample_trace, opt_steps, aux_steps, recreated, saves,
                   es_calls, val_history, aux_snapshot, logs, aux_mode,
                   delta_t, model_class, dirs_created, test_sum, printed,
                   samples_seen, sched_calls, val_loss_recon, val_loss_pred,
                   net, num_train_samples, assigned, stale_reads>>

\* lines 135-143: every output block pops one skip connection, last kept
\* first; the output layer; return
NetOutputBlocks ==
    /\ pc = "net_output_blocks"
    /\ fwd' = [fwd EXCEPT !.decoder_skips = Reverse(fwd.h_skip_connection),
                   !.h_skip_connection = <<>>,
                   !.returned = TRUE]
    /\ pc' = "net_idle"
    /\ UNCHANGED <<config, epoch_idx, iter_idx, running_stage1, shall_plot,
                   optimizer, lr_scheduler, lr_scheduler_aux, model_params,
                   model_grad, model_frozen, model_mode, aux_params, aux_grad,
                   aux_frozen, loss_pred, loss_aux, val_sum, val_loss,
                   best_val_loss, early_stopper, ckpt_model, ckpt_aux,
                   sample_trace, opt_steps, aux_steps, recreated, saves,
                   es_calls, val_history, aux_snapshot, logs, aux_mode, error,
                   delta_t, model_class, dirs_created, test_sum, printed,
                   samples_seen, sched_calls, val_loss_recon, val_loss_pred,
                   net, num_train_samples, assigned, stale_reads>>

\* freeze_time_independent: lines 85-90 of unet_ode_static.py, lines 95-100
\* of unet_t_emb.py
NetFreezeTimeIndependent ==
    /\ pc = "net_idle"
    /\ net' = [net EXCEPT
                  !.requires_grad =
                      [p \in Parameters(net) |->
                          IF p \in TimeIndependentParameters(net) THEN FALSE
                          ELSE net.requires_grad[p]],
                  !.froze = TRUE]
    /\ UNCHANGED <<config, pc, epoch_idx, iter_idx, running_stage1,
                   shall_plot, optimizer, lr_scheduler, lr_scheduler_aux,
                   model_params, model_grad, model_frozen, model_mode,
                   aux_params, aux_grad, aux_frozen, loss_pred, loss_aux,
                   val_sum, val_loss, best_val_loss, early_stopper,
                   ckpt_model, ckpt_aux, sample_trace, opt_steps, aux_steps,
                   recreated, saves, es_calls, val_history, aux_snapshot,
                   logs, aux_mode, error, delta_t, model_class, dirs_created,
                   test_sum, printed, samples_seen, sched_calls,
                   val_loss_recon, val_loss_pred, fwd,
                   num_train_samples, assigned, stale_reads>>

NextNet ==
    \/ NetForwardCall
    \/ NetInputBlock
    \/ NetMiddleBlock
    \/ NetOutputBlocks
    \/ NetFreezeTimeIndependent

SpecNet == InitNet /\ [][NextNet]_vars

TypeOK ==
    /\ config \in Configs \cup RunConfigs
    /\ epoch_idx \in 0..MaxRunEpochs
    /\ model_frozen \in {"none", "non_ode"}

(* ============================== claims ================================= *)
max_epochs == config.max_epochs
epochs_stage1 == config.epochs_stage1
patience == config.patience

Last(seq) == seq[Len(seq)]

Stopped == es_calls # <<>> /\ Last(es_calls).ret

\* averaged validation loss of the STAGE_2 epoch e, once it is known
ValOf(e) == val_history[e - epochs_stage1 + 1]

\* the STAGE_2 epochs whose validation pass is complete
Validated == epochs_stage1..(epochs_stage1 + Len(val_history) - 1)

\* C1: the stage used throughout epoch e (prediction loss of training and
\* validation, log tag, model selection) is STAGE_1 exactly when
\* e < epochs_stage1, and no STAGE_1 epoch follows a STAGE_2 epoch.
C1_StageFollowsEpochIndex ==
    /\ pc \notin {"epoch_start", "done"}
          => (running_stage1 <=> epoch_idx < epochs_stage1)
    /\ (pc = "pred_backward" \/ (pc = "val_iter" /\ iter_idx > 0))
          => loss_pred = IF epoch_idx < epochs_stage1 THEN "mse" ELSE "cos"
    /\ \A i \in DOMAIN logs :
          /\ logs[i].line = "Train [Stage 1]" => logs[i].epoch < epochs_stage1
          /\ logs[i].line = "Train [Stage 2]" => logs[i].epoch >= epochs_stage1
          /\ logs[i].line \in {"Saved", "Early stopping"}
                => logs[i].epoch >= epochs_stage1
    /\ \A i \in DOMAIN es_calls : es_calls[i].epoch >= epochs_stage1
    /\ \A i, j \in DOMAIN logs :
          (i < j /\ logs[i].line = "Train [Stage 2]")
              => logs[j].line # "Train [Stage 1]"

\* a STAGE_2 epoch reaches model selection after a STAGE_1 epoch was logged
C1_Witness ==
    /\ pc = "select"
    /\ ~running_stage1
    /\ \E i \in DOMAIN logs : logs[i].line = "Train [Stage 1]"

\* C2 (as claimed): in a run with a STAGE_2 epoch the backbone optimizer is
\* re-created with learning_rate_finetune exactly once, at epoch
\* epochs_stage1, and every backbone step of STAGE_2 is taken by it.
C2_FinetuneOptimizerInStage2 ==
    /\ \A i \in DOMAIN opt_steps :
          opt_steps[i].epoch >= epochs_stage1
              => opt_steps[i].lr = "learning_rate_finetune"
    /\ (pc # "epoch_start" /\ epoch_idx >= epochs_stage1
           /\ epochs_stage1 < max_epochs)
          => recreated = <<epochs_stage1>>

\* C3: the backbone optimizer steps and clears exactly at the samples with
\* iter_idx mod backprop_freq = backprop_freq - 1; anywhere else in the
\* epoch the parameters are unchanged and the accumulated gradient only grows.
C3_StepExactlyAtBoundary ==
    [][ /\ (model_params' # model_params)
            => /\ pc = "optimizer_boundary"
               /\ iter_idx % backprop_freq = backprop_freq - 1
               /\ model_params' = model_params + 1
               /\ model_grad # {}
               /\ model_grad' = {}
        /\ (pc = "optimizer_boundary" /\ pc' # pc
               /\ iter_idx % backprop_freq = backprop_freq - 1)
            => /\ model_params' = model_params + 1
               /\ model_grad' = {}
        /\ (model_params' = model_params /\ pc # "epoch_start")
            => model_grad \subseteq model_grad'
      ]_vars

\* with backprop_freq = 2 the second step of an epoch has just been taken,
\* after samples 0 and 2 only accumulated
C3_Witness ==
    /\ pc = "aux_loss"
    /\ backprop_freq = 2
    /\ iter_idx = 3
    /\ model_grad = {}
    /\ Len(opt_steps) >= 2
    /\ opt_steps[Len(opt_steps)].grad =
           {<<2, "recon">>, <<2, "pred">>, <<3, "recon">>, <<3, "pred">>}

C5_CheckpointOnlyOnStage2Improvement ==
    /\ \A i \in DOMAIN saves :
          LET e == saves[i].epoch
          IN  /\ e >= epochs_stage1
              /\ e \in Validated
              /\ Less(ValOf(e), Inf)
              /\ \A j \in epochs_stage1..(e - 1) : Less(ValOf(e), ValOf(j))
    /\ \A k \in 1..(Len(saves) \div 2) :
          /\ saves[2 * k - 1].net = "model"
          /\ saves[2 * k].net = "model_aux"
          /\ saves[2 * k].epoch = saves[2 * k - 1].epoch
    /\ pc # "save_aux" => (Len(saves) % 2 = 0 /\ ckpt_model = ckpt_aux)
    /\ pc = "save_aux" => (Len(saves) % 2 = 1 /\ ckpt_model = epoch_idx)

\* one checkpoint has been written, in the STAGE_2 epoch that follows a
\* STAGE_1 epoch (whose finite validation loss was below best_val_loss too)
C5_Witness ==
    /\ pc = "early_stop"
    /\ Len(saves) = 2
    /\ epochs_stage1 >= 1
    /\ saves[1].epoch = epochs_stage1

\* validation losses that model selection has already seen
SelectedEpochs ==
    {e \in Validated : ~(pc = "select" /\ e = epoch_idx)}

MinSelected ==
    CHOOSE v \in {ValOf(e) : e \in SelectedEpochs} :
        \A e \in SelectedEpochs : ~Less(ValOf(e), v)

C6_State ==
    /\ best_val_loss = IF SelectedEpochs = {} THEN Inf ELSE MinSelected
    /\ epoch_idx < epochs_stage1 => best_val_loss = Inf
    /\ pc \notin {"save_model", "save_aux"}
          => /\ ckpt_model = ckpt_aux
             /\ ckpt_model =
                   IF SelectedEpochs = {} THEN 0 - 1
                   ELSE CHOOSE e \in SelectedEpochs :
                           /\ ValOf(e) = MinSelected
                           /\ \A f \in SelectedEpochs :
                                 ValOf(f) = MinSelected => e <= f

\* C6: best_val_loss never increases, is +infinity until a STAGE_2 epoch is
\* selected on, and then is the minimum validation loss of the STAGE_2
\* epochs selected on so far; the checkpoint on disk is the one of the
\* earliest epoch attaining that minimum.
C6_BestValLossIsRunningMinimum ==
    /\ []C6_State
    /\ [][~Less(best_val_loss, best_val_loss')]_vars

\* two STAGE_2 epochs tie at the minimum, the checkpoint is the earlier one
C6_Witness ==
    /\ pc \in {"epoch_end", "done"}
    /\ Len(es_calls) >= 2
    /\ es_calls[1].val = best_val_loss
    /\ es_calls[2].val = best_val_loss
    /\ ckpt_model = es_calls[1].epoch

\* C7: once early_stopper.step has returned true, train() is at its return:
\* nothing of a later epoch, and nothing more of this one, has happened.
C7_StopEndsTraining ==
    \A i \in DOMAIN es_calls :
        es_calls[i].ret =>
            LET e == es_calls[i].epoch
            IN  /\ pc = "done"
                /\ i = Len(es_calls)
                /\ epoch_idx = e
                /\ Validated = epochs_stage1..e
                /\ lr_scheduler_aux.steps = e + 1
                /\ \A k \in DOMAIN opt_steps : opt_steps[k].epoch <= e
                /\ \A k \in DOMAIN aux_steps : aux_steps[k].epoch <= e
                /\ \A k \in DOMAIN saves : saves[k].epoch <= e
                /\ Last(logs) = [epoch |-> e, line |-> "Early stopping"]

\* the stop signal came while epochs remained
C7_Witness ==
    /\ Stopped
    /\ pc = "done"
    /\ epoch_idx + 1 < max_epochs

\* number of STAGE_2 epochs whose loop body has been left
Stage2EpochsEnded ==
    (IF epoch_idx > epochs_stage1 THEN epoch_idx - epochs_stage1 ELSE 0)
    + (IF pc \in {"epoch_end", "done"} /\ epoch_idx < max_epochs
          /\ epoch_idx >= epochs_stage1
       THEN 1 ELSE 0)

\* C8: early_stopper.step is called once per STAGE_2 epoch, in epoch order,
\* after the epoch's validation loss has been averaged and with that loss
\* as its argument; never in a STAGE_1 epoch.
C8_StopperCalledOncePerStage2Epoch ==
    /\ \A i \in DOMAIN es_calls :
          /\ es_calls[i].epoch = epochs_stage1 + i - 1
          /\ es_calls[i].epoch \in Validated
          /\ es_calls[i].val = ValOf(es_calls[i].epoch)
    /\ Len(es_calls) = Stage2EpochsEnded

\* a STAGE_1 epoch has passed without a call, the STAGE_2 epoch after it
\* has made its one call
C8_Witness ==
    /\ pc \in {"epoch_end", "done"}
    /\ epochs_stage1 >= 1
    /\ Len(es_calls) = 1
    /\ es_calls[1].epoch = epochs_stage1

\* the first n STAGE_2 validation losses: none is below an earlier one
NonImproving(n) ==
    \A i \in 2..n : \A j \in 1..(i - 1) :
        ~Less(val_history[i], val_history[j])

Canonical(step) ==
    IF step = "freeze_non_ode_ignored" THEN "freeze_non_ode"
    ELSE IF step = "aux_loss_skipped" THEN "aux_loss"
    ELSE step

ProtocolOrder ==
    <<"freeze_aux", "recon_forward", "pred_forward", "recon_backward",
      "freeze_non_ode", "pred_loss", "pred_backward", "optimizer_boundary",
      "aux_loss", "aux_update">>

\* C10 (as claimed): the backward pass of the reconstruction loss and the
\* partial freeze both precede the forward passes that compute
\* x_start_pred and x_end_pred.
C10_FreezeBeforePredictionForward ==
    \A i \in DOMAIN sample_trace :
        sample_trace[i] = "pred_forward"
            => /\ \E j \in 1..(i - 1) : sample_trace[j] = "recon_backward"
               /\ \E j \in 1..(i - 1) :
                     Canonical(sample_trace[j]) = "freeze_non_ode"

\* C10 (amended): the steps of a training sample run in one fixed order, in
\* which the prediction forward passes come right after the reconstruction
\* forward passes, before the reconstruction backward pass and the partial
\* freeze, and these two come before the prediction loss and its backward.
C10_SampleProtocolOrder ==
    /\ Len(sample_trace) <= Len(ProtocolOrder)
    /\ \A i \in DOMAIN sample_trace :
          Canonical(sample_trace[i]) = ProtocolOrder[i]
    /\ pc = "train_metrics" => Len(sample_trace) = Len(ProtocolOrder)

\* a whole sample has run on a backbone that has freeze_non_ode
C10_Witness ==
    /\ pc = "train_metrics"
    /\ config.has_freeze_non_ode
    /\ sample_trace[5] = "freeze_non_ode"
    /\ Len(sample_trace) = 10

\* C11 (as claimed): whenever the STAGE_2 prediction loss has been computed
\* in the training pass, the auxiliary network is in evaluation mode and
\* frozen, and the backward pass of that loss leaves the auxiliary
\* accumulated gradient empty.
C11_AuxEvalAndFrozenAtStage2PredLoss ==
    (pc = "pred_backward" /\ loss_pred = "cos")
        => /\ aux_mode = "eval"
           /\ aux_frozen
           /\ aux_grad = {}

\* C12: the prediction loss of a training sample and of a validation sample
\* is the pixel MSE sum in an epoch of STAGE_1 and the sum of the two cosine
\* distances of auxiliary embeddings in an epoch of STAGE_2; every
\* validation sample uses the formula the training pass of its epoch used.
C12_PredLossFormulaByStage ==
    [][ /\ (pc = "pred_loss" /\ pc' # pc)
            => loss_pred' = IF epoch_idx < epochs_stage1 THEN "mse" ELSE "cos"
        /\ (pc = "val_iter" /\ iter_idx' = iter_idx + 1)
            => /\ loss_pred' = IF epoch_idx < epochs_stage1 THEN "mse"
                               ELSE "cos"
               /\ loss_pred' = loss_pred
      ]_vars

\* a validation sample of a STAGE_2 epoch has been scored by cosine
\* distance, after a STAGE_1 epoch that used pixel MSE
C12_Witness ==
    /\ pc = "val_iter"
    /\ iter_idx = 1
    /\ loss_pred = "cos"
    /\ \E i \in DOMAIN logs : logs[i].line = "Train [Stage 1]"
    /\ Last(logs).line = "Train [Stage 2]"

\* C13 (as claimed): a sample whose time difference is not strictly
\* positive ends the run in whichever pass fetched it, before anything of
\* the sample is accumulated: while such a sample is the current one the
\* run is either still ahead of the check or has failed.
C13_NonPositiveDeltaTIsFatal ==
    delta_t <= 0
        => pc \in {"freeze_aux", "recon_forward", "pred_forward",
                   "test_sample", "failed"}

\* C14 (as claimed): with a config.model that names no backbone class,
\* train() fails with the configuration error before an optimizer or an
\* output directory is created, a sample is processed or a weight is
\* written; with an unknown dataset_name no model is ever built.
C14_UnsupportedModelFailsBeforeSetup ==
    /\ (config.mode = "train" /\ config.model \notin SupportedModels)
          => /\ pc \in {"main", "prepare_dataset", "build_model", "failed"}
             /\ pc = "failed" => error = "ValueError"
             /\ optimizer = NoOptimizer
             /\ ~dirs_created
             /\ sample_trace = <<>>
             /\ saves = <<>>
    /\ (config.mode = "train" /\ ~KnownDataset(config.dataset_name))
          => /\ model_class = "none"
             /\ pc \in {"main", "prepare_dataset", "failed"}

\* the current training sample has gone through the try statement of
\* lines 165-168
PastFreezeStep == Len(sample_trace) >= 5

\* C15 (as claimed): on a backbone without freeze_non_ode the ignored call
\* leaves a line written through log().
C15_IgnoredFreezeIsLogged ==
    (sample_trace # <<>> /\ Last(sample_trace) = "freeze_non_ode_ignored")
        => /\ logs # <<>>
           /\ Last(logs).line = "model.freeze_non_ode() ignored."

\* C15 (amended): on a backbone without freeze_non_ode the call of every
\* training sample is a no-op that does not end the run: no backbone
\* parameter is ever frozen, one message per sample is printed to standard
\* output and none is written through log(), and the sample goes on through
\* the same steps in the same order; an exception other than AttributeError
\* raised by an existing freeze_non_ode ends the run in that sample.
C15_MissingFreezeNonOdeIsPrintedNoOp ==
    /\ ~config.has_freeze_non_ode
          => /\ model_frozen = "none"
             /\ error # "RuntimeError"
             /\ printed = samples_seen
                    - (IF samples_seen > 0 /\ ~PastFreezeStep THEN 1 ELSE 0)
             /\ \A i \in DOMAIN logs :
                   logs[i].line \in {"Train [Stage 1]", "Train [Stage 2]",
                                     "Validation", "Saved", "Early stopping",
                                     "Model weights loaded", "Test loss"}
             /\ \A i \in DOMAIN sample_trace :
                   Canonical(sample_trace[i]) = ProtocolOrder[i]
             /\ pc = "train_metrics"
                   => /\ Len(sample_trace) = Len(ProtocolOrder)
                      /\ sample_trace[5] = "freeze_non_ode_ignored"
                      /\ model_grad \subseteq
                             {<<iter_idx, "recon">>, <<iter_idx, "pred">>}
    /\ config.has_freeze_non_ode => printed = 0
    /\ (config.has_freeze_non_ode /\ config.freeze_non_ode_raises)
          => /\ ~PastFreezeStep
             /\ samples_seen <= 1
             /\ Len(sample_trace) = 4 => (pc = "freeze_non_ode"
                                          \/ (pc = "failed"
                                              /\ error = "RuntimeError"))

\* the second sample of an epoch has gone through all its steps on a
\* backbone without freeze_non_ode
C15_Witness ==
    /\ pc = "train_metrics"
    /\ ~config.has_freeze_non_ode
    /\ iter_idx = 1
    /\ printed = 2
    /\ sample_trace[5] = "freeze_non_ode_ignored"

\* C16: between any two consecutive backbone optimizer steps of the run, in
\* the same epoch or not, under the same optimizer object or not, at least
\* backprop_freq training samples are processed; so are they before the
\* first step.
C16_StepsAtLeastBackpropFreqApart ==
    /\ \A i \in DOMAIN opt_steps :
          i + 1 \in DOMAIN opt_steps
              => opt_steps[i + 1].seen - opt_steps[i].seen >= backprop_freq
    /\ opt_steps # <<>> => opt_steps[1].seen >= backprop_freq

\* with backprop_freq = 2 and five samples per epoch, the last step of an
\* epoch and the first step of the next one, taken by the re-created
\* optimizer, are three samples apart
C16_Witness ==
    /\ backprop_freq = 2
    /\ \E i \in DOMAIN opt_steps :
          /\ i + 1 \in DOMAIN opt_steps
          /\ opt_steps[i].epoch < opt_steps[i + 1].epoch
          /\ opt_steps[i].lr # opt_steps[i + 1].lr
          /\ opt_steps[i + 1].seen - opt_steps[i].seen = 3

\* number of epochs whose training pass is complete and whose schedulers
\* have been stepped
EpochsTrained ==
    epoch_idx
    + (IF pc \in {"train_log", "val_start", "val_iter", "select",
                  "save_model", "save_aux", "early_stop", "epoch_end"}
          \/ (pc = "done" /\ Stopped)
       THEN 1 ELSE 0)

\* C17: both schedulers are stepped once per epoch, in STAGE_1 and STAGE_2
\* alike, between the last training sample and the validation pass, also
\* in the epoch that early stopping ends; the steps taken through
\* lr_scheduler and through lr_scheduler_aux each number the epochs run
\* (the backbone scheduler object created at the stage boundary has counted
\* the epochs since then).
C17_SchedulersStepOncePerEpoch ==
    /\ sched_calls = EpochsTrained
    /\ lr_scheduler_aux.steps = EpochsTrained
    /\ lr_scheduler.steps =
           EpochsTrained - (IF recreated # <<>> THEN recreated[1] ELSE 0)
    /\ pc = "done" => sched_calls = IF Stopped THEN epoch_idx + 1
                                    ELSE max_epochs

\* early stopping has ended a run in a STAGE_2 epoch that followed a
\* STAGE_1 epoch: two epochs, two steps of each scheduler
C17_Witness ==
    /\ pc = "done"
    /\ Stopped
    /\ recreated # <<>>
    /\ sched_calls = 2
    /\ lr_scheduler_aux.steps = 2

\* what the validation pass must leave alone
ValidationFrame ==
    <<model_params, aux_params, model_grad, aux_grad, optimizer,
      lr_scheduler, lr_scheduler_aux, sched_calls, best_val_loss,
      early_stopper, opt_steps, aux_steps, ckpt_model, ckpt_aux, saves>>

C18_State ==
    /\ pc \in {"val_iter", "select"}
          => val_sum = val_loss_recon + val_loss_pred
    /\ pc = "select"
          => /\ iter_idx = config.num_val
             /\ val_loss = Rat(val_loss_recon + val_loss_pred, config.num_val)

C19_State ==
    /\ (~running_stage1 /\ pc \notin {"epoch_start", "done"})
          => aux_grad = {}
    /\ \A c \in aux_grad : c[2] = "aux"
    /\ (~running_stage1 /\ pc \in {"aux_update", "train_metrics"})
          => (sample_trace[9] = "aux_loss" <=> iter_idx % config.plot_freq = 0)

C20_TestRunEndsWithAggregatedLog ==
    ( /\ config.mode = "test"
      /\ KnownDataset(config.dataset_name)
      /\ config.model \in SupportedModels
      /\ config.num_test > 0
      /\ pc \in {"done", "failed"} )
        => /\ pc = "done"
           /\ error = "none"
           /\ iter_idx = config.num_test
           /\ Last(logs).line = "Test loss"

TrainTags == {"Train [Stage 1]", "Train [Stage 2]"}

\* positions in the log of the lines of epoch e that carry one of the tags
LinesOf(e, tags) ==
    {i \in DOMAIN logs : logs[i].epoch = e /\ logs[i].line \in tags}

\* positions in the log of all the lines that carry the tag
LinesTagged(tag) == {i \in DOMAIN logs : logs[i].line = tag}

\* the training pass of epoch e is complete and line 270 or 278 has run
TrainLogged(e) ==
    \/ e < epoch_idx
    \/ /\ e = epoch_idx
       /\ \/ pc \in {"val_start", "val_iter", "select", "save_model",
                     "save_aux", "early_stop", "epoch_end"}
          \/ (pc = "done" /\ Stopped)

\* the validation pass of epoch e is complete and line 356 has run
ValLogged(e) ==
    \/ e < epoch_idx
    \/ /\ e = epoch_idx
       /\ \/ pc \in {"select", "save_model", "save_aux", "early_stop",
                     "epoch_end"}
          \/ (pc = "done" /\ Stopped)

\* C21: every epoch whose training pass completes writes one training log
\* line, tagged [Stage 1] when its index is below epochs_stage1 and
\* [Stage 2] otherwise, and its one validation log line comes right after
\* it; a run with epochs_stage1 = 2 and max_epochs = 3 ends with two
\* [Stage 1] lines, one [Stage 2] line and at most one weight-save event,
\* which belongs to the third epoch.
C21_OneTrainAndValidationLinePerEpoch ==
    /\ \A e \in 0..MaxRunEpochs :
          /\ Cardinality(LinesOf(e, TrainTags))
                 = IF TrainLogged(e) THEN 1 ELSE 0
          /\ \A i \in LinesOf(e, TrainTags) :
                logs[i].line = IF e < epochs_stage1 THEN "Train [Stage 1]"
                               ELSE "Train [Stage 2]"
          /\ Cardinality(LinesOf(e, {"Validation"}))
                 = IF ValLogged(e) THEN 1 ELSE 0
          /\ \A i \in LinesOf(e, {"Validation"}) :
                i - 1 \in LinesOf(e, TrainTags)
    /\ (config.mode = "train" /\ epochs_stage1 = 2 /\ max_epochs = 3)
          => /\ Cardinality(LinesTagged("Saved")) <= 1
             /\ \A i \in LinesTagged("Saved") : logs[i].epoch = 2
             /\ Len(saves) <= 2
             /\ pc = "done"
                   => /\ Cardinality(LinesTagged("Train [Stage 1]")) = 2
                      /\ Cardinality(LinesTagged("Train [Stage 2]")) = 1
                      /\ Cardinality(LinesTagged("Validation")) = 3

\* the run with epochs_stage1 = 2 and max_epochs = 3 has ended, its third
\* epoch having saved the weights
C21_Witness ==
    /\ pc = "done"
    /\ config.mode = "train"
    /\ epochs_stage1 = 2
    /\ max_epochs = 3
    /\ LinesTagged("Saved") # {}
    /\ Len(logs) >= 7

\* C22: in every training sample of either stage the auxiliary network is
\* frozen and no backbone parameter is frozen when the reconstruction
\* forward passes run, and no backbone parameter is frozen when the
\* optimizer boundary is checked, hence at every backbone optimizer step,
\* nor when a sample starts; between the partial freeze and the backward
\* pass of the prediction loss a backbone that has freeze_non_ode has its
\* other parameters frozen.
C22_BackboneUnfrozenAtSampleStartAndStep ==
    /\ pc = "recon_forward" => (aux_frozen /\ model_frozen = "none")
    /\ pc \in {"optimizer_boundary", "aux_loss", "aux_update",
               "train_metrics", "train_iter", "freeze_aux"}
          => model_frozen = "none"
    /\ pc \in {"pred_loss", "pred_backward"}
          => model_frozen = IF config.has_freeze_non_ode THEN "non_ode"
                            ELSE "none"
    /\ \A i \in DOMAIN opt_steps :
          /\ opt_steps[i].iter % backprop_freq = backprop_freq - 1
          /\ (pc = "aux_loss" /\ i = Len(opt_steps)
                 /\ opt_steps[i].seen = samples_seen
                 /\ AtBoundary(iter_idx, backprop_freq))
                => model_frozen = "none"

\* in a STAGE_2 sample after the partial freeze was applied, the backbone
\* optimizer has just stepped with nothing frozen, the auxiliary network
\* still frozen
C22_Witness ==
    /\ pc = "aux_loss"
    /\ ~running_stage1
    /\ config.has_freeze_non_ode
    /\ sample_trace[5] = "freeze_non_ode"
    /\ opt_steps # <<>>
    /\ Last(opt_steps).seen = samples_seen
    /\ model_frozen = "none"
    /\ aux_frozen
    /\ iter_idx >= 1

\* contributions of the reconstruction and prediction losses of the
\* samples lo..hi
BackboneTerms(lo, hi) ==
    {<<j, t>> : j \in lo..hi, t \in {"recon", "pred"}}

\* first sample of the accumulation window that sample i belongs to
WindowStart(i) == i - (i % backprop_freq)

\* C23: the backward pass of the auxiliary loss adds nothing to the
\* accumulated gradient of the backbone: the gradient every backbone
\* optimizer step applies consists of the reconstruction-loss and the
\* prediction-loss contribution of each sample since the last clear and of
\* nothing else, and after the auxiliary backward pass of a sample the
\* backbone holds those contributions of its open window only.
C23_BackboneGradIsReconPlusPred ==
    /\ \A i \in DOMAIN opt_steps :
          opt_steps[i].grad =
              BackboneTerms(opt_steps[i].iter - backprop_freq + 1,
                            opt_steps[i].iter)
    /\ \A c \in model_grad : c[2] \in {"recon", "pred"}
    /\ pc = "train_metrics"
          => model_grad = IF AtBoundary(iter_idx, backprop_freq) THEN {}
                          ELSE BackboneTerms(WindowStart(iter_idx), iter_idx)

\* in STAGE_1 with backprop_freq = 2, the auxiliary loss of the first sample
\* of a window has been backpropagated after an earlier backbone step
C23_Witness ==
    /\ pc = "train_metrics"
    /\ running_stage1
    /\ backprop_freq = 2
    /\ iter_idx = 2
    /\ aux_grad = {<<2, "aux">>}
    /\ model_grad = {<<2, "recon">>, <<2, "pred">>}
    /\ opt_steps # <<>>
    /\ Last(opt_steps).grad = BackboneTerms(0, 1)

InStage1(step) == step.epoch < epochs_stage1

\* the backbone optimizer steps taken in STAGE_1 epochs, in order
OptStepsStage1 == SelectSeq(opt_steps, InStage1)

\* the backbone optimizer has stepped in the current STAGE_1 sample and the
\* auxiliary update of the sample is still to come
AuxStepPending ==
    /\ running_stage1
    /\ pc \in {"aux_loss", "aux_update"}
    /\ AtBoundary(iter_idx, backprop_freq)

\* C24: in STAGE_1 the auxiliary optimizer steps and clears in exactly the
\* samples in which the backbone optimizer does, after it within the
\* sample: the steps of the two optimizers pair up sample by sample, the
\* backbone one ahead only between its step and the auxiliary update of the
\* same sample, so that both have taken the same number of steps whenever a
\* STAGE_1 epoch ends.
C24_AuxStepsWithBackboneInStage1 ==
    /\ Len(OptStepsStage1)
           = Len(aux_steps) + (IF AuxStepPending THEN 1 ELSE 0)
    /\ \A i \in DOMAIN aux_steps :
          /\ aux_steps[i].epoch = OptStepsStage1[i].epoch
          /\ aux_steps[i].iter = OptStepsStage1[i].iter
    /\ (running_stage1 /\ pc = "train_metrics")
          => /\ model_grad = {} <=> aux_grad = {}
             /\ AtBoundary(iter_idx, backprop_freq) <=> aux_grad = {}
    /\ (running_stage1 /\ pc = "train_end") => aux_params = model_params

\* a STAGE_1 epoch with backprop_freq = 2 has ended: two steps of each
\* optimizer, a trailing sample accumulated in both
C24_Witness ==
    /\ pc = "train_end"
    /\ running_stage1
    /\ backprop_freq = 2
    /\ Len(aux_steps) = 2
    /\ Len(opt_steps) = 2
    /\ aux_grad # {}
    /\ model_grad # {}

\* the blocks of the network whose outputs an ODE block may integrate, in
\* the order forward runs them, and the channel count after each
IntegratedBlocks ==
    [k \in 1..(Len(net.input_dims) + 1) |->
        IF k <= Len(net.input_dims) THEN <<"input_blocks", k>>
        ELSE <<"middle_block", 1>>]

DimAfter(k) ==
    IF k <= Len(net.input_dims) THEN net.input_dims[k] ELSE net.middle_dim

\* C25: a forward call of StaticODEUNet with time input 0 invokes no ODE
\* block, the skip connections and the bottleneck carrying the features as
\* the blocks produced them; a call with a nonzero time input t, positive
\* or negative, passes the output of every input block and of the middle
\* block through one ODE block each, the one built for its channel count,
\* integrating over [0, t]; no call fails on the lookup of the ODE block.
C25_OdeUsedExactlyWhenTimeNonzero ==
    /\ (net.class = "StaticODEUNet" /\ fwd # NoCall)
          => /\ error = "none"
             /\ fwd.t = 0 => fwd.ode_calls = <<>>
             /\ \A i \in DOMAIN fwd.ode_calls :
                   /\ i <= Len(IntegratedBlocks)
                   /\ fwd.ode_calls[i].on = IntegratedBlocks[i]
                   /\ fwd.ode_calls[i].integration_time = <<0, fwd.t>>
                   /\ fwd.ode_calls[i].ode_idx \in DOMAIN net.dim_list
                   /\ net.dim_list[fwd.ode_calls[i].ode_idx] = DimAfter(i)
             /\ fwd.t # 0 =>
                   Len(fwd.ode_calls) =
                       fwd.blocks_done
                       + (IF pc = "net_output_blocks" \/ fwd.returned
                          THEN 1 ELSE 0)
    /\ (net.class = "StaticODEUNet" /\ fwd.returned)
          => /\ Len(fwd.decoder_skips) = Len(net.input_dims)
             /\ fwd.h_skip_connection = <<>>
             /\ fwd.t = 0
                   => /\ fwd.h = "features"
                      /\ \A i \in DOMAIN fwd.decoder_skips :
                            fwd.decoder_skips[i] = "features"
             /\ fwd.t # 0
                   => /\ fwd.h = "integrated"
                      /\ Len(fwd.ode_calls) = Len(net.input_dims) + 1
                      /\ \A i \in DOMAIN fwd.decoder_skips :
                            fwd.decoder_skips[i] = "integrated"

\* a call with a negative time input has returned from a network with two
\* input blocks of the same channel count: three integrations over [0, t],
\* the two input blocks through the same ODE block
C25_Witness ==
    /\ net.class = "StaticODEUNet"
    /\ fwd.returned
    /\ fwd.t < 0
    /\ Len(fwd.ode_calls) = 3
    /\ fwd.ode_calls[1].ode_idx = fwd.ode_calls[2].ode_idx
    /\ fwd.ode_calls[3].integration_time = <<0, fwd.t>>

\* the attributes that hold the time-dependent modules of a network class
TimeDependentModules(class) ==
    IF class = "StaticODEUNet" THEN {"ode_list"}
    ELSE {"t_emb_list", "t_emb_bottleneck"}

TimeDependentParameters(n) ==
    {p \in Parameters(n) : p[1] \in TimeDependentModules(n.class)}

Min(a, b) == IF a <= b THEN a ELSE b

\* number of training samples the sample loop of an epoch processes
Processed ==
    IF config.max_training_samples = NoCap THEN config.num_train
    ELSE Min(config.max_training_samples + 1, config.num_train)

\* number of the recorded steps that were taken in epoch e
StepsIn(steps, e) == Cardinality({i \in DOMAIN steps : steps[i].epoch = e})

\* the sample loop of epoch e has ended
TrainingPassEnded(e) ==
    \/ e < epoch_idx
    \/ /\ e = epoch_idx
       /\ \/ pc \in {"train_end", "scheduler_step", "train_log", "val_start",
                     "val_iter", "select", "save_model", "save_aux",
                     "early_stop", "epoch_end"}
          \/ (pc = "done" /\ Stopped)

\* the samples after the last boundary of an epoch
Trailing == (backprop_freq * (Processed \div backprop_freq))..(Processed - 1)

C27_Frame ==
    /\ pc = "train_end" => iter_idx = Processed
    /\ \A e \in 0..(MaxEpochs - 1) :
          TrainingPassEnded(e)
              => StepsIn(opt_steps, e) = Processed \div backprop_freq
    /\ \A i \in DOMAIN opt_steps :
          opt_steps[i].grad =
              BackboneTerms(opt_steps[i].iter - backprop_freq + 1,
                            opt_steps[i].iter)
    /\ \A i \in DOMAIN aux_steps :
          aux_steps[i].grad =
              {<<j, "aux">> :
                  j \in (aux_steps[i].iter - backprop_freq + 1)
                            ..aux_steps[i].iter}
    /\ pc \in {"train_end", "scheduler_step", "train_log", "val_start",
               "val_iter", "select", "save_model", "save_aux", "early_stop",
               "epoch_end"}
          => /\ model_grad = {<<j, t>> : j \in Trailing,
                                         t \in {"recon", "pred"}}
             /\ aux_grad = IF running_stage1
                           THEN {<<j, "aux">> : j \in Trailing} ELSE {}
    /\ (pc = "train_iter" /\ iter_idx = 0)
          => (model_grad = {} /\ aux_grad = {})

C28_AveragesDivideByProcessed ==
    pc \in {"scheduler_step", "train_log"}
        => /\ iter_idx = Processed
           /\ num_train_samples = iter_idx

\* C29: no per-sample variable is read before it has been assigned in the
\* same sample (the same epoch for the AUROC values): no read of an
\* unassigned name has ever happened, loss_aux is assigned when the
\* auxiliary update is about to backpropagate it, the five similarity
\* values are assigned when the plot of a training sample is about to read
\* them and after the plotted validation sample, and the AUROC values are
\* assigned when the STAGE_1 line is about to be logged.
C29_NoReadBeforeAssignment ==
    /\ stale_reads = {}
    /\ (pc = "aux_update" /\ UpdatesAux(running_stage1, shall_plot))
           => "loss_aux" \in assigned
    /\ (pc = "train_metrics" /\ shall_plot) => PlotReads \subseteq assigned
    /\ (pc = "train_log" /\ running_stage1) => AurocNames \subseteq assigned
    /\ (pc = "val_iter" /\ iter_idx >= 1 /\ shall_plot)
           => PlotReads \subseteq assigned

\* a STAGE_2 epoch with plot_freq = 2 (its training pass had plotted and
\* unplotted samples, none of them updating the auxiliary network) has
\* just plotted its second validation sample
C29_Witness ==
    /\ pc = "val_iter"
    /\ ~running_stage1
    /\ config.plot_freq = 2
    /\ iter_idx = 2
    /\ shall_plot
    /\ assigned = ValSampleAssigns(TRUE)
    /\ stale_reads = {}

\* the epoch loop is not running any more
RunEnded == pc = "done"

\* the validation loop of the current epoch has ended
ValidationPassEnded ==
    pc \in {"select", "save_model", "save_aux", "early_stop", "epoch_end"}

\* the bounds and the end condition of C30
C30_BoundedRun ==
    /\ epoch_idx <= max_epochs
    /\ ~RunEnded => epoch_idx < max_epochs
    /\ pc = "train_end"
           => /\ iter_idx <= config.num_train
              /\ config.max_training_samples # NoCap
                     => iter_idx <= config.max_training_samples
    /\ ValidationPassEnded => iter_idx = config.num_val
    /\ RunEnded
           => \/ epoch_idx = max_epochs /\ ~Stopped
              \/ /\ Stopped
                 /\ epoch_idx < max_epochs
                 /\ epoch_idx >= epochs_stage1
                 /\ Last(es_calls).epoch = epoch_idx
                 /\ \A i \in 1..(Len(es_calls) - 1) : ~es_calls[i].ret

\* C30 (as claimed): every training run terminates; it executes at most
\* max_epochs epochs, each epoch processes each yielded training sample
\* once, at most max_training_samples of them when the cap is set, and each
\* validation sample once, and the run ends after epoch max_epochs - 1 or
\* at the first STAGE_2 epoch whose early-stopper call signals stop.
C30_TrainingRunTerminates == []C30_BoundedRun /\ <>RunEnded

====
